---- MODULE Spec2Model ----
(***************************************************************************)
(* A model of the hashtree package: the open (mutable) hash tree, its      *)
(* canonicalization pass, and the merge of finished trees.                 *)
(*                                                                         *)
(* A path is the sequence of its components: "/a/b" is <<"a","b">> and the *)
(* root (internally "") is <<>>.  A raw path, as a caller passes it, may   *)
(* also hold "", "." and ".." components.  A byte string that is hashed is *)
(* a sequence of tokens, and sha256 is a collision-free function of it.    *)
(***************************************************************************)
EXTENDS Integers, Sequences, FiniteSets, TLC

VARIABLES
    h,       \* the open tree: [fs: path -> NodeProto, changed: set of paths]
    fin,     \* the HashTreeProto the last successful Finish() returned, or Nil
    last,    \* the last call: its name, its arguments and the error it returned
    nops,    \* the number of calls made so far
    allOk,   \* TRUE while every call so far has returned a nil error
    h2,      \* a second open tree (SpecPair)
    log1,    \* the calls made on h, in order  (SpecPair)
    log2,    \* the calls that built h2, in order (SpecPair)
    prev,    \* the PutFile or Open call that was the last or the last but one
             \* call, the open tree before it and whether every call before it
             \* returned a nil error; NoPut when there is none
    shares,  \* the pairs of handles among "h", "h2", "fin" that point to one map
    opened,  \* TRUE when h is the tree fin.Open() returned
    out,     \* the last read-only call, its arguments and what it returned
             \* (SpecRead)
    authConfig,  \* the auth config stored in etcd, or Nil (SpecAuth)
    events,      \* the events the watcher of authConfig has yet to deliver
    configCache, \* apiServer.configCache: a canonicalConfig or Nil
    samlSP,      \* apiServer.samlSP: a saml.ServiceProvider or Nil
    getCfg,      \* the GetConfiguration calls: where each is, and its locals
    lastSet      \* the last call of setCacheConfig: caller, argument, error

authVars == <<authConfig, events, configCache, samlSP, getCfg, lastSet>>

vars == <<h, fin, last, nops, allOk, h2, log1, log2, prev, shares, opened, out,
          authVars>>

----------------------------------------------------------------------------
(* Bounds *)

\* The number of calls one behaviour of Spec makes.
MaxOps == 2

\* The number of calls one SpecPair behaviour makes on its first tree.
MaxPairOps == 3

----------------------------------------------------------------------------
(* Values *)

Nil == [nil |-> TRUE]

OK == "OK"
PathNotFound == "PathNotFound"
PathConflict == "PathConflict"
Internal == "Internal"
Unsupported == "Unsupported"

\* The error of Serialize for a tree that is not a *HashTreeProto, and the
\* error of Unmarshal for an input that ends within a field.
WrongType == "WrongType"
UnexpectedEOF == "UnexpectedEOF"

\* The error a visitor passed to Walk returns.
VisitorError == "VisitorError"

none == "none"
directory == "directory"
file == "file"

\* Names in ascending lexical order.  "*" is a legal file name and is also
\* the glob metacharacter.
NameOrder == <<"*", "a", "ab", "b">>

Names == {NameOrder[i] : i \in 1..Len(NameOrder)}

Rank(n) == CHOOSE i \in 1..Len(NameOrder) : NameOrder[i] = n

\* The characters of a name.
NameChars(n) == IF n = "ab" THEN <<"a", "b">> ELSE <<n>>

\* pfs.Object: an opaque content identifier carrying a hash string (a
\* sequence of characters).
Obj(s) == [Hash |-> s]

X == Obj(<<"x">>)

Y == Obj(<<"y">>)

XY == Obj(<<"x", "y">>)

HeaderObj == Obj(<<"h">>)

FooterObj == Obj(<<"f">>)

\* An object whose hash string is empty.
EmptyHashObj == Obj(<<>>)

\* The bytes of the content block an object names.  A caller of PutFileSplit
\* passes as headerFooterSize the bytes of the header plus those of the footer.
ObjBytes(o) == IF o = Nil THEN 0 ELSE 1

FileNodeProto(objects) == [Objects |-> objects]

DirectoryNodeProto(children, header, footer) ==
    [Children |-> children, Header |-> header, Footer |-> footer]

NodeProto(name, hash, size, fileNode, dirNode) ==
    [Name |-> name, Hash |-> hash, SubtreeSize |-> size,
     FileNode |-> fileNode, DirNode |-> dirNode]

nodetype(n) ==
    IF n.DirNode = Nil /\ n.FileNode = Nil THEN none
    ELSE IF n.DirNode # Nil THEN directory
    ELSE file

----------------------------------------------------------------------------
(* Path utilities *)

RECURSIVE clean(_)
clean(raw) ==
    IF raw = <<>> THEN <<>>
    ELSE LET front == clean(SubSeq(raw, 1, Len(raw) - 1))
             c == raw[Len(raw)]
         IN  IF c = "" \/ c = "." THEN front
             ELSE IF c = ".."
                  THEN (IF front = <<>> THEN <<>>
                        ELSE SubSeq(front, 1, Len(front) - 1))
                  ELSE Append(front, c)

base(path) == IF path = <<>> THEN "" ELSE path[Len(path)]

split(path) ==
    [parent |-> SubSeq(path, 1, Len(path) - 1), child |-> base(path)]

join(path, child) == clean(Append(path, child))

\* filepath.Dir of a cleaned path, as a string of the caller's form: the
\* directory of "/a" is "/", which is not the internal root "".
filepathDir(path) ==
    IF path = <<>> THEN <<".">>
    ELSE IF Len(path) = 1 THEN <<"/">>
    ELSE SubSeq(path, 1, Len(path) - 1)

RECURSIVE insertStr(_, _)
insertStr(ss, s) ==
    IF ss = <<>> THEN <<s>>
    ELSE IF ss[1] = s THEN ss
    ELSE IF Rank(s) < Rank(ss[1]) THEN <<s>> \o ss
    ELSE <<ss[1]>> \o insertStr(Tail(ss), s)

RECURSIVE removeStr(_, _)
removeStr(ss, s) ==
    IF ss = <<>> THEN [ss |-> <<>>, found |-> FALSE]
    ELSE IF ss[1] = s THEN [ss |-> Tail(ss), found |-> TRUE]
    ELSE LET r == removeStr(Tail(ss), s)
         IN  [ss |-> <<ss[1]>> \o r.ss, found |-> r.found]

----------------------------------------------------------------------------
(* Hashing *)

\* sha256 over a byte string: collision-free, so the digest is the input.
sha256(bytes) == [sha |-> bytes]

Chars(s) == [i \in 1..Len(s) |-> [c |-> s[i]]]

\* fmt "%s" of a hash: its bytes; a nil hash prints as the empty string.
HashBytes(hash) == IF hash = Nil THEN <<>> ELSE <<hash>>

RECURSIVE fileBytes(_)
fileBytes(objects) ==
    IF objects = <<>> THEN <<>>
    ELSE Chars(objects[1].Hash) \o fileBytes(Tail(objects))

\* Mutant of childBytes: the child's name is left out of the bytes hashed.
childBytesNoName(childnode) == HashBytes(childnode.Hash) \o <<[c |-> ":"]>>

childBytes(childnode) ==
    <<[c |-> childnode.Name], [c |-> ":"]>> \o HashBytes(childnode.Hash)
        \o <<[c |-> ":"]>>

----------------------------------------------------------------------------
(* The open tree *)

Tree(fs, changed) == [fs |-> fs, changed |-> changed]

Res(tree, err) == [h |-> tree, err |-> err]

Has(t, path) == path \in DOMAIN t.fs

SetNode(t, path, node) == Tree((path :> node) @@ t.fs, t.changed)

Mark(t, path) == Tree(t.fs, t.changed \cup {path})

NewDir(name) == NodeProto(name, Nil, 0, Nil, DirectoryNodeProto(<<>>, Nil, Nil))

NewFile(name) == NodeProto(name, Nil, 0, FileNodeProto(<<>>), Nil)

\* The arguments an update closure captures.
Args(path, sizeDelta, header, footer, headerFooterSize) ==
    [path |-> path, sizeDelta |-> sizeDelta, header |-> header,
     footer |-> footer, headerFooterSize |-> headerFooterSize]

NoArgs == Args(<<>>, 0, Nil, Nil, 0)

nop(t, parent, child, a) == Res(t, OK)

\* Mutant of putFileUpdate: a new child is appended to the children list
\* instead of being inserted in order.
putFileUpdateAppend(t, parent, child, a) ==
    LET fresh == IF parent = filepathDir(a.path)
                 THEN NodeProto(base(parent), Nil, a.headerFooterSize, Nil,
                                DirectoryNodeProto(<<>>, a.header, a.footer))
                 ELSE NewDir(base(parent))
        node == IF Has(t, parent) THEN t.fs[parent] ELSE fresh
        listed == \E i \in 1..Len(node.DirNode.Children) :
                      node.DirNode.Children[i] = child
        node2 == [node EXCEPT
                    !.DirNode.Children = IF listed THEN @ ELSE Append(@, child),
                    !.SubtreeSize = @ + a.sizeDelta]
    IN  Res(Mark(SetNode(t, parent, node2), parent), OK)

\* Mutant of putFileUpdate: the size of the ancestor is left as it is.
putFileUpdateNoSize(t, parent, child, a) ==
    LET fresh == IF parent = filepathDir(a.path)
                 THEN NodeProto(base(parent), Nil, a.headerFooterSize, Nil,
                                DirectoryNodeProto(<<>>, a.header, a.footer))
                 ELSE NewDir(base(parent))
        node == IF Has(t, parent) THEN t.fs[parent] ELSE fresh
        node2 == [node EXCEPT !.DirNode.Children = insertStr(@, child)]
    IN  Res(Mark(SetNode(t, parent, node2), parent), OK)

\* The closure putFile passes to visit when it appends objects.
putFileUpdate(t, parent, child, a) ==
    LET fresh == IF parent = filepathDir(a.path)
                 THEN NodeProto(base(parent), Nil, a.headerFooterSize, Nil,
                                DirectoryNodeProto(<<>>, a.header, a.footer))
                 ELSE NewDir(base(parent))
        node == IF Has(t, parent) THEN t.fs[parent] ELSE fresh
        node2 == [node EXCEPT !.DirNode.Children = insertStr(@, child),
                              !.SubtreeSize = @ + a.sizeDelta]
    IN  Res(Mark(SetNode(t, parent, node2), parent), OK)

\* The closure putFile passes to visit when it writes a header and footer to
\* a directory.
putHeaderUpdate(t, parent, child, a) ==
    LET node == IF Has(t, parent) THEN t.fs[parent] ELSE NewDir(base(parent))
        node2 == [node EXCEPT !.DirNode.Children = insertStr(@, child),
                              !.SubtreeSize = @ + a.headerFooterSize]
    IN  Res(Mark(SetNode(t, parent, node2), parent), OK)

\* Mutant of putDirUpdate: the ancestor is not marked changed.
putDirUpdateNoMark(t, parent, child, a) ==
    LET node == IF Has(t, parent) THEN t.fs[parent] ELSE NewDir(base(parent))
        node2 == [node EXCEPT !.DirNode.Children = insertStr(@, child)]
    IN  Res(SetNode(t, parent, node2), OK)

\* The closure PutDir passes to visit.
putDirUpdate(t, parent, child, a) ==
    LET node == IF Has(t, parent) THEN t.fs[parent] ELSE NewDir(base(parent))
        node2 == [node EXCEPT !.DirNode.Children = insertStr(@, child)]
    IN  Res(Mark(SetNode(t, parent, node2), parent), OK)

\* Mutant of deleteUpdate: the ancestor is not marked changed.
deleteUpdateNoMark(t, parent, child, a) ==
    IF ~Has(t, parent) THEN Res(t, Internal)
    ELSE Res(SetNode(t, parent,
                 [t.fs[parent] EXCEPT !.SubtreeSize = @ - a.sizeDelta]), OK)

\* The closure DeleteFile passes to visit; a.sizeDelta is the deleted size.
deleteUpdate(t, parent, child, a) ==
    IF ~Has(t, parent) THEN Res(t, Internal)
    ELSE Res(Mark(SetNode(t, parent,
                 [t.fs[parent] EXCEPT !.SubtreeSize = @ - a.sizeDelta]), parent), OK)

update(fn, t, parent, child, a) ==
    CASE fn = "nop" -> nop(t, parent, child, a)
      [] fn = "putFile" -> putFileUpdate(t, parent, child, a)
      [] fn = "putHeader" -> putHeaderUpdate(t, parent, child, a)
      [] fn = "putDir" -> putDirUpdate(t, parent, child, a)
      [] fn = "delete" -> deleteUpdate(t, parent, child, a)

RECURSIVE visit(_, _, _, _)
visit(t, path, fn, a) ==
    IF path = <<>> THEN Res(t, OK)
    ELSE LET parent == split(path).parent
             child == split(path).child
         IN  IF Has(t, parent) /\ nodetype(t.fs[parent]) # directory
             THEN Res(t, PathConflict)
             ELSE LET r == update(fn, t, parent, child, a)
                  IN  IF r.err # OK THEN r ELSE visit(r.h, parent, fn, a)

\* Mutant of precheck: no check before the tree is modified.
precheckSkipped(t, path) == Res(t, OK)

\* Detect any path conflicts before modifying the tree.
precheck(t, path) == visit(t, path, "nop", NoArgs)

\* Remove existing objects if overwriting; index is Nil for no overwrite.
truncate(objects, index) ==
    IF index # Nil /\ index.Index <= Len(objects)
    THEN SubSeq(objects, 1, index.Index)
    ELSE objects

\* putFile with a non-empty object list: the file branch.
putFileObjects(t, path, objects, overwriteIndex, sizeDelta, header, footer, headerFooterSize) ==
    IF Has(t, path) /\ nodetype(t.fs[path]) # file THEN Res(t, PathConflict)
    ELSE LET node == IF Has(t, path) THEN t.fs[path] ELSE NewFile(base(path))
             node2 == [node EXCEPT
                         !.FileNode.Objects = truncate(@, overwriteIndex) \o objects,
                         !.SubtreeSize = @ + sizeDelta + headerFooterSize]
         IN  visit(Mark(SetNode(t, path, node2), path), path, "putFile",
                   Args(path, sizeDelta, header, footer, headerFooterSize))

\* putFile with an empty object list: the directory branch.
putFileHeader(t, path, header, footer, headerFooterSize) ==
    IF Has(t, path) /\ nodetype(t.fs[path]) # directory THEN Res(t, PathConflict)
    ELSE LET node == IF Has(t, path) THEN t.fs[path] ELSE NewDir(base(path))
             node2 == [node EXCEPT !.DirNode.Header = header,
                                   !.DirNode.Footer = footer,
                                   !.SubtreeSize = @ + headerFooterSize]
         IN  visit(Mark(SetNode(t, path, node2), path), path, "putHeader",
                   Args(path, 0, header, footer, headerFooterSize))

putFile(t, rawPath, objects, overwriteIndex, sizeDelta, header, footer, headerFooterSize) ==
    LET path == clean(rawPath)
        pre == precheck(t, path)
    IN  IF pre.err # OK THEN Res(t, pre.err)
        ELSE IF Len(objects) > 0
             THEN putFileObjects(t, path, objects, overwriteIndex, sizeDelta,
                                 header, footer, headerFooterSize)
             ELSE putFileHeader(t, path, header, footer, headerFooterSize)

PutFile(t, path, objects, size) ==
    putFile(t, path, objects, Nil, size, Nil, Nil, 0)

PutFileOverwrite(t, path, objects, overwriteIndex, sizeDelta) ==
    putFile(t, path, objects, overwriteIndex, sizeDelta, Nil, Nil, 0)

PutFileSplit(t, path, objects, size, header, footer, headerFooterSize) ==
    putFile(t, path, objects, Nil, size, header, footer, headerFooterSize)

\* Mutant of PutDir: no early return when a directory is already there.
PutDirAlwaysCreates(t, rawPath) ==
    LET path == clean(rawPath)
        pre == precheck(t, path)
    IN  IF pre.err # OK THEN Res(t, pre.err)
        ELSE IF Has(t, path) /\ nodetype(t.fs[path]) = file THEN Res(t, PathConflict)
        ELSE visit(Mark(SetNode(t, path, NewDir(base(path))), path), path,
                   "putDir", NoArgs)

PutDir(t, rawPath) ==
    LET path == clean(rawPath)
        pre == precheck(t, path)
    IN  IF pre.err # OK THEN Res(t, pre.err)
        ELSE IF Has(t, path) /\ nodetype(t.fs[path]) = directory THEN Res(t, OK)
        ELSE IF Has(t, path) /\ nodetype(t.fs[path]) # none THEN Res(t, PathConflict)
        ELSE visit(Mark(SetNode(t, path, NewDir(base(path))), path), path,
                   "putDir", NoArgs)

EmptyTree == Tree(<<>>, {})

NewHashTree == PutDir(EmptyTree, <<>>).h

----------------------------------------------------------------------------
(* Canonicalization *)

RECURSIVE canonicalize(_, _)
RECURSIVE canonicalizeChildren(_, _, _, _)

\* The loop over a directory's children: canonicalize each, then append its
\* name and hash to the bytes hashed.
canonicalizeChildren(t, path, children, bytes) ==
    IF children = <<>> THEN [h |-> t, err |-> OK, bytes |-> bytes]
    ELSE LET childpath == join(path, children[1])
             r == canonicalize(t, childpath)
         IN  IF r.err # OK THEN [h |-> r.h, err |-> r.err, bytes |-> bytes]
             ELSE IF ~Has(r.h, childpath)
                  THEN [h |-> r.h, err |-> Internal, bytes |-> bytes]
                  ELSE canonicalizeChildren(r.h, path, Tail(children),
                           bytes \o childBytes(r.h.fs[childpath]))

setHash(t, path, hash) ==
    Tree([t.fs EXCEPT ![path].Hash = hash], t.changed \ {path})

canonicalize(t, rawPath) ==
    LET path == clean(rawPath)
    IN  IF path \notin t.changed THEN Res(t, OK)
        ELSE IF ~Has(t, path) THEN Res(t, Internal)
        ELSE LET n == t.fs[path]
             IN  CASE nodetype(n) = directory ->
                        LET r == canonicalizeChildren(t, path, n.DirNode.Children, <<>>)
                        IN  IF r.err # OK THEN Res(r.h, r.err)
                            ELSE Res(setHash(r.h, path, sha256(r.bytes)), OK)
                   [] nodetype(n) = file ->
                        Res(setHash(t, path, sha256(fileBytes(n.FileNode.Objects))), OK)
                   [] OTHER -> Res(t, Internal)

HashTreeProto(fs, version) == [Fs |-> fs, Version |-> version]

\* Mutant of protoClone: the message itself is returned, so that the result
\* points to the map of the original.
protoCloneShallow(msg) == [msg |-> msg, deep |-> FALSE]

\* proto.Clone: a deep copy of the message; deep says that the copy points to
\* a map of its own.
protoClone(msg) == [msg |-> msg, deep |-> TRUE]

\* Mutant of Finish: the shallow copy innerp is returned as it is.
FinishShallow(t) ==
    LET r == canonicalize(t, <<>>)
    IN  IF r.err # OK THEN [h |-> r.h, tree |-> Nil, err |-> r.err, deep |-> TRUE]
        ELSE [h |-> r.h, tree |-> HashTreeProto(r.h.fs, 1), err |-> OK,
              deep |-> FALSE]

\* Finish: the open tree after canonicalization, the tree returned, the error,
\* and whether the tree returned has a map of its own.
Finish(t) ==
    LET r == canonicalize(t, <<>>)
        innerp == protoClone(HashTreeProto(r.h.fs, 1))
    IN  IF r.err # OK THEN [h |-> r.h, tree |-> Nil, err |-> r.err, deep |-> TRUE]
        ELSE [h |-> r.h, tree |-> innerp.msg, err |-> OK, deep |-> innerp.deep]

\* Mutant of Open: the hashes of the nodes are not carried over.
OpenNoHashes(tree) ==
    LET h2c == protoClone(tree)
    IN  [h |-> Tree([p \in DOMAIN h2c.msg.Fs |-> [h2c.msg.Fs[p] EXCEPT !.Hash = Nil]], {}),
         err |-> OK, deep |-> h2c.deep]

\* HashTreeProto.Open: an open tree over a deep copy of the map, with an empty
\* changed set.
Open(tree) ==
    LET h2c == protoClone(tree)
    IN  [h |-> Tree(h2c.msg.Fs, {}), err |-> OK, deep |-> h2c.deep]

----------------------------------------------------------------------------
(* Read operations *)

get(fs, rawPath) ==
    LET path == clean(rawPath)
    IN  IF path \in DOMAIN fs THEN [node |-> fs[path], err |-> OK]
        ELSE [node |-> Nil, err |-> PathNotFound]

\* Mutant of isGlob: every pattern is taken for a glob.
isGlobAlways(pattern) == TRUE

\* The glob metacharacters; the model's patterns use "*" only.
isGlob(pattern) == \E i \in 1..Len(pattern) : pattern[i] = "*"

\* The pattern library's matcher with "/" as the separator: a "*" matches one
\* whole component.
Match(pattern, path) ==
    /\ Len(pattern) = Len(path)
    /\ \A i \in 1..Len(path) : pattern[i] = "*" \/ pattern[i] = path[i]

\* glob: the set of matching paths (the nodes are those of fs), and the error.
glob(fs, pattern) ==
    IF ~isGlob(pattern)
    THEN IF get(fs, pattern).err # OK
         THEN [paths |-> {}, err |-> get(fs, pattern).err]
         ELSE [paths |-> {clean(pattern)}, err |-> OK]
    ELSE [paths |-> {p \in DOMAIN fs : Match(clean(pattern), p)}, err |-> OK]

size(fs) == IF <<>> \in DOMAIN fs THEN fs[<<>>].SubtreeSize ELSE 0

RECURSIVE PathString(_)
\* The key of a path in the map: "" for the root, else each name after a "/".
PathString(path) ==
    IF path = <<>> THEN <<>>
    ELSE PathString(SubSeq(path, 1, Len(path) - 1)) \o <<"/">>
             \o NameChars(path[Len(path)])

\* strings.HasPrefix.
HasPrefix(str, prefix) ==
    Len(prefix) <= Len(str) /\ SubSeq(str, 1, Len(prefix)) = prefix

\* One call of the visitor of walk.
WalkCall(path, node) == [path |-> path, node |-> node]

RECURSIVE walkRange(_, _, _, _)
\* The loop of walk over the map; todo is the order in which the range
\* statement yields the keys, fails the paths on which the visitor returns an
\* error.
walkRange(fs, path, todo, fails) ==
    IF todo = <<>> THEN [calls |-> <<>>, err |-> OK]
    ELSE LET rangePath == IF todo[1] = <<>> THEN <<"/">> ELSE PathString(todo[1])
         IN  IF ~HasPrefix(rangePath, PathString(path))
             THEN walkRange(fs, path, Tail(todo), fails)
             ELSE IF todo[1] \in fails
             THEN [calls |-> <<WalkCall(todo[1], fs[todo[1]])>>, err |-> VisitorError]
             ELSE LET r == walkRange(fs, path, Tail(todo), fails)
                  IN  [calls |-> <<WalkCall(todo[1], fs[todo[1]])>> \o r.calls,
                       err |-> r.err]

\* walk: the calls of the visitor f, in order, and the error returned.
walk(fs, rawPath, order, fails) ==
    LET path == clean(rawPath)
    IN  IF path \in DOMAIN fs /\ fs[path].FileNode # Nil
        THEN [calls |-> <<WalkCall(path, fs[path])>>,
              err |-> IF path \in fails THEN VisitorError ELSE OK]
        ELSE IF path \notin DOMAIN fs THEN [calls |-> <<>>, err |-> PathNotFound]
        ELSE walkRange(fs, path, order, fails)

RECURSIVE listChildren(_, _, _)
\* The loop of list over d.Children: the node of each child in the order of the
\* list, Internal when a listed child has no node.
listChildren(fs, path, children) ==
    IF children = <<>> THEN [nodes |-> <<>>, err |-> OK]
    ELSE IF join(path, children[1]) \notin DOMAIN fs
         THEN [nodes |-> <<>>, err |-> Internal]
         ELSE LET r == listChildren(fs, path, Tail(children))
              IN  IF r.err # OK THEN r
                  ELSE [nodes |-> <<fs[join(path, children[1])]>> \o r.nodes,
                        err |-> OK]

\* Mutant of list: a file is listed as a directory without children.
listFileAsEmpty(fs, rawPath) ==
    LET path == clean(rawPath)
        g == get(fs, path)
    IN  IF g.err # OK THEN [nodes |-> <<>>, err |-> g.err]
        ELSE IF g.node.DirNode = Nil THEN [nodes |-> <<>>, err |-> OK]
        ELSE listChildren(fs, path, g.node.DirNode.Children)

list(fs, rawPath) ==
    LET path == clean(rawPath)
        g == get(fs, path)
    IN  IF g.err # OK THEN [nodes |-> <<>>, err |-> g.err]
        ELSE IF g.node.DirNode = Nil THEN [nodes |-> <<>>, err |-> PathConflict]
        ELSE listChildren(fs, path, g.node.DirNode.Children)

\* Mutant of Visit: the visitor is told that every node was added.
VisitAlwaysAdded(path, node, added) == [path |-> path, node |-> node, added |-> TRUE]

\* One call of the visitor of diff.
Visit(path, node, added) == [path |-> path, node |-> node, added |-> added]

RECURSIVE diff(_, _, _, _, _, _)
RECURSIVE diffChildren(_, _, _, _, _, _, _)
\* The loop of diff over the map children; todo is the order in which the
\* range statement yields its keys.
diffChildren(new, old, newPath, oldPath, newDepth, ord, todo) ==
    IF todo = <<>> THEN <<>>
    ELSE diff(new, old, join(newPath, todo[1]), join(oldPath, todo[1]), newDepth, ord)
         \o diffChildren(new, old, newPath, oldPath, newDepth, ord, Tail(todo))

\* Mutant of diff: nodes with equal hashes are compared like any others.
diffNoPrune(new, old, newPath, oldPath, recursiveDepth, ord) ==
    LET newNode == get(new, newPath).node
        oldNode == get(old, oldPath).node
        Reported(n) == n # Nil /\ (n.FileNode # Nil \/ recursiveDepth = 0)
        ChildrenOf(n) ==
            IF n # Nil /\ ~Reported(n) /\ n.DirNode # Nil
            THEN {n.DirNode.Children[i] : i \in 1..Len(n.DirNode.Children)}
            ELSE {}
        children == ChildrenOf(newNode) \cup ChildrenOf(oldNode)
        calls == (IF Reported(newNode) THEN <<Visit(newPath, newNode, TRUE)>> ELSE <<>>)
                 \o (IF Reported(oldNode) THEN <<Visit(oldPath, oldNode, FALSE)>> ELSE <<>>)
        newDepth == IF recursiveDepth > 0 THEN recursiveDepth - 1 ELSE recursiveDepth
    IN  IF newNode = Nil /\ oldNode = Nil THEN <<>>
        ELSE IF recursiveDepth > 0 \/ recursiveDepth = 0 - 1
             THEN calls \o diffChildren(new, old, newPath, oldPath, newDepth, ord,
                                        SelectSeq(ord, LAMBDA c : c \in children))
             ELSE calls

\* Mutant of diff: the depth is handed down as it is.
diffNoDecrement(new, old, newPath, oldPath, recursiveDepth, ord) ==
    LET newNode == get(new, newPath).node
        oldNode == get(old, oldPath).node
        Reported(n) == n # Nil /\ (n.FileNode # Nil \/ recursiveDepth = 0)
        ChildrenOf(n) ==
            IF n # Nil /\ ~Reported(n) /\ n.DirNode # Nil
            THEN {n.DirNode.Children[i] : i \in 1..Len(n.DirNode.Children)}
            ELSE {}
        children == ChildrenOf(newNode) \cup ChildrenOf(oldNode)
        calls == (IF Reported(newNode) THEN <<Visit(newPath, newNode, TRUE)>> ELSE <<>>)
                 \o (IF Reported(oldNode) THEN <<Visit(oldPath, oldNode, FALSE)>> ELSE <<>>)
    IN  IF \/ newNode = Nil /\ oldNode = Nil
           \/ newNode # Nil /\ oldNode # Nil /\ newNode.Hash = oldNode.Hash
        THEN <<>>
        ELSE IF recursiveDepth > 0 \/ recursiveDepth = 0 - 1
             THEN calls \o diffChildren(new, old, newPath, oldPath, recursiveDepth, ord,
                                        SelectSeq(ord, LAMBDA c : c \in children))
             ELSE calls

\* diff: the calls of the visitor f, in order, for a visitor that returns nil.
\* new and old are the maps of the two trees; ord is the order in which a
\* range over the map children yields names.
diff(new, old, newPath, oldPath, recursiveDepth, ord) ==
    LET newNode == get(new, newPath).node
        oldNode == get(old, oldPath).node
        Reported(n) == n # Nil /\ (n.FileNode # Nil \/ recursiveDepth = 0)
        ChildrenOf(n) ==
            IF n # Nil /\ ~Reported(n) /\ n.DirNode # Nil
            THEN {n.DirNode.Children[i] : i \in 1..Len(n.DirNode.Children)}
            ELSE {}
        children == ChildrenOf(newNode) \cup ChildrenOf(oldNode)
        calls == (IF Reported(newNode) THEN <<Visit(newPath, newNode, TRUE)>> ELSE <<>>)
                 \o (IF Reported(oldNode) THEN <<Visit(oldPath, oldNode, FALSE)>> ELSE <<>>)
        newDepth == IF recursiveDepth > 0 THEN recursiveDepth - 1 ELSE recursiveDepth
    IN  IF \/ newNode = Nil /\ oldNode = Nil
           \/ newNode # Nil /\ oldNode # Nil /\ newNode.Hash = oldNode.Hash
        THEN <<>>
        ELSE IF recursiveDepth > 0 \/ recursiveDepth = 0 - 1
             THEN calls \o diffChildren(new, old, newPath, oldPath, newDepth, ord,
                                        SelectSeq(ord, LAMBDA c : c \in children))
             ELSE calls

----------------------------------------------------------------------------
(* Serialization *)

\* The wire format is a sequence of fields, each with the name of the field
\* of the message and its value.  The encoder writes no field that holds the
\* zero value of its type (the empty string, 0, nil bytes, a nil message); a
\* repeated field is written once per element, a map once per entry; the
\* decoder starts from the zero message.
Field(tag, val) == [tag |-> tag, val |-> val]

FieldsOf(bytes, tag) == SelectSeq(bytes, LAMBDA f : f.tag = tag)

\* A field that is not repeated: the last occurrence, or the zero value.
Scalar(bytes, tag, zero) ==
    IF FieldsOf(bytes, tag) = <<>> THEN zero
    ELSE FieldsOf(bytes, tag)[Len(FieldsOf(bytes, tag))].val

MarshalObject(o) == IF o.Hash = <<>> THEN <<>> ELSE <<Field("hash", o.Hash)>>

UnmarshalObject(bytes) == Obj(Scalar(bytes, "hash", <<>>))

MarshalFileNode(f) ==
    [i \in 1..Len(f.Objects) |-> Field("objects", MarshalObject(f.Objects[i]))]

UnmarshalFileNode(bytes) ==
    FileNodeProto([i \in 1..Len(FieldsOf(bytes, "objects")) |->
                       UnmarshalObject(FieldsOf(bytes, "objects")[i].val)])

MarshalDirNode(d) ==
    [i \in 1..Len(d.Children) |-> Field("children", d.Children[i])]
    \o (IF d.Header = Nil THEN <<>> ELSE <<Field("header", MarshalObject(d.Header))>>)
    \o (IF d.Footer = Nil THEN <<>> ELSE <<Field("footer", MarshalObject(d.Footer))>>)

UnmarshalDirNode(bytes) ==
    DirectoryNodeProto(
        [i \in 1..Len(FieldsOf(bytes, "children")) |-> FieldsOf(bytes, "children")[i].val],
        IF FieldsOf(bytes, "header") = <<>> THEN Nil
        ELSE UnmarshalObject(Scalar(bytes, "header", <<>>)),
        IF FieldsOf(bytes, "footer") = <<>> THEN Nil
        ELSE UnmarshalObject(Scalar(bytes, "footer", <<>>)))

MarshalNode(n) ==
    (IF n.Name = "" THEN <<>> ELSE <<Field("name", n.Name)>>)
    \o (IF n.Hash = Nil THEN <<>> ELSE <<Field("hash", n.Hash)>>)
    \o (IF n.SubtreeSize = 0 THEN <<>> ELSE <<Field("subtree_size", n.SubtreeSize)>>)
    \o (IF n.FileNode = Nil THEN <<>>
        ELSE <<Field("file_node", MarshalFileNode(n.FileNode))>>)
    \o (IF n.DirNode = Nil THEN <<>>
        ELSE <<Field("dir_node", MarshalDirNode(n.DirNode))>>)

UnmarshalNode(bytes) ==
    NodeProto(Scalar(bytes, "name", ""), Scalar(bytes, "hash", Nil),
              Scalar(bytes, "subtree_size", 0),
              IF FieldsOf(bytes, "file_node") = <<>> THEN Nil
              ELSE UnmarshalFileNode(Scalar(bytes, "file_node", <<>>)),
              IF FieldsOf(bytes, "dir_node") = <<>> THEN Nil
              ELSE UnmarshalDirNode(Scalar(bytes, "dir_node", <<>>)))

\* HashTreeProto.Marshal; order is the order in which the entries of the map
\* are written.
Marshal(tree, order) ==
    [i \in 1..Len(order) |->
         Field("fs", [key |-> order[i], value |-> MarshalNode(tree.Fs[order[i]])])]
    \o (IF tree.Version = 0 THEN <<>> ELSE <<Field("version", tree.Version)>>)

\* An input that ends within a field.
Truncate(bytes) == Append(bytes, Field("eof", 0))

\* HashTreeProto.Unmarshal into the zero message.
Unmarshal(bytes) ==
    LET entries == FieldsOf(bytes, "fs")
        keys == {entries[i].val.key : i \in 1..Len(entries)}
        Entry(k) == SelectSeq(entries, LAMBDA e : e.val.key = k)
    IN  IF FieldsOf(bytes, "eof") # <<>>
        THEN [msg |-> HashTreeProto(<<>>, 0), err |-> UnexpectedEOF]
        ELSE [msg |-> HashTreeProto(
                          [k \in keys |-> UnmarshalNode(Entry(k)[Len(Entry(k))].val.value)],
                          Scalar(bytes, "version", 0)),
              err |-> OK]

\* Mutant of Serialize: the envelope is written without its version.
SerializeDropsVersion(x, order) ==
    IF "Fs" \notin DOMAIN x THEN [bytes |-> <<>>, err |-> WrongType]
    ELSE [bytes |-> Marshal(HashTreeProto(x.Fs, 0), order), err |-> OK]

\* Serialize: x is a HashTree, a finished tree (*HashTreeProto) or an open one.
Serialize(x, order) ==
    IF "Fs" \notin DOMAIN x THEN [bytes |-> <<>>, err |-> WrongType]
    ELSE [bytes |-> Marshal(x, order), err |-> OK]

\* Mutant of Deserialize: the version is not looked at.
DeserializeAnyVersion(serialized) ==
    LET u == Unmarshal(serialized)
    IN  IF u.err # OK THEN [tree |-> Nil, err |-> u.err]
        ELSE [tree |-> u.msg, err |-> OK]

Deserialize(serialized) ==
    LET u == Unmarshal(serialized)
    IN  IF u.err # OK THEN [tree |-> Nil, err |-> u.err]
        ELSE IF u.msg.Version # 1 THEN [tree |-> Nil, err |-> Unsupported]
        ELSE [tree |-> u.msg, err |-> OK]

----------------------------------------------------------------------------
(* Deletion *)

RECURSIVE removeFromMap(_, _)
RECURSIVE removeChildren(_, _, _)

removeChildren(t, path, children) ==
    IF children = <<>> THEN t
    ELSE removeChildren(removeFromMap(t, join(path, children[1])), path,
                        Tail(children))

Drop(t, path) == Tree([p \in DOMAIN t.fs \ {path} |-> t.fs[p]], t.changed)

\* Mutant of removeFromMap: the node is removed, its descendants are not.
removeFromMapShallow(t, path) == IF Has(t, path) THEN Drop(t, path) ELSE t

removeFromMap(t, path) ==
    IF ~Has(t, path) THEN t
    ELSE LET n == t.fs[path]
         IN  CASE nodetype(n) = file -> Drop(t, path)
               [] nodetype(n) = directory ->
                    Drop(removeChildren(t, path, n.DirNode.Children), path)
               [] OTHER -> t

\* Mutant of deleteOne: the name stays in the parent's children list.
deleteOneKeepsName(t, path) ==
    IF ~Has(t, path) THEN Res(t, OK)
    ELSE LET sz == t.fs[path].SubtreeSize
             t1 == removeFromMap(t, path)
         IN  IF ~Has(t1, split(path).parent) THEN Res(t1, Internal)
             ELSE visit(t1, path, "delete", Args(path, sz, Nil, Nil, 0))

\* One iteration of DeleteFile's loop over the matched paths.
deleteOne(t, path) ==
    IF ~Has(t, path) THEN Res(t, OK)
    ELSE LET sz == t.fs[path].SubtreeSize
             t1 == removeFromMap(t, path)
             parent == split(path).parent
             child == split(path).child
         IN  IF ~Has(t1, parent) THEN Res(t1, Internal)
             ELSE IF t1.fs[parent].DirNode = Nil THEN Res(t1, Internal)
             ELSE LET r == removeStr(t1.fs[parent].DirNode.Children, child)
                      t2 == SetNode(t1, parent,
                                [t1.fs[parent] EXCEPT !.DirNode.Children = r.ss])
                  IN  IF ~r.found THEN Res(t1, Internal)
                      ELSE visit(t2, path, "delete", Args(path, sz, Nil, Nil, 0))

RECURSIVE deleteLoop(_, _)
deleteLoop(t, order) ==
    IF order = <<>> THEN Res(t, OK)
    ELSE LET r == deleteOne(t, order[1])
         IN  IF r.err # OK THEN r ELSE deleteLoop(r.h, Tail(order))

\* Mutant of deletePattern: the root is globbed like any other path.
deletePatternLiteral(rawPath) == clean(rawPath)

\* The pattern DeleteFile globs: deleting the root means deleting all files.
deletePattern(rawPath) == IF clean(rawPath) = <<>> THEN <<"*">> ELSE clean(rawPath)

\* The orders in which a range over the map of matches may visit them.
Orders(S) == {o \in [1..Cardinality(S) -> S] : {o[i] : i \in DOMAIN o} = S}

\* Mutant of DeleteFile: a PathNotFound from Glob is returned to the caller.
DeleteFileStrict(t, rawPath, order) ==
    LET g == glob(t.fs, deletePattern(rawPath))
    IN  IF g.err # OK THEN Res(t, g.err)
        ELSE deleteLoop(t, order)

\* Mutant of DeleteFile: the path-conflict check of the other mutations runs
\* before the glob.
DeleteFilePrechecked(t, rawPath, order) ==
    LET pre == precheck(t, clean(rawPath))
        g == glob(t.fs, deletePattern(rawPath))
    IN  IF pre.err # OK THEN Res(t, pre.err)
        ELSE IF g.err # OK /\ g.err # PathNotFound THEN Res(t, g.err)
        ELSE deleteLoop(t, order)

\* DeleteFile, visiting the matched paths in the given order.
DeleteFile(t, rawPath, order) ==
    LET g == glob(t.fs, deletePattern(rawPath))
    IN  IF g.err # OK /\ g.err # PathNotFound THEN Res(t, g.err)
        ELSE deleteLoop(t, order)

----------------------------------------------------------------------------
(* Merge *)

\* The accumulator of mergeNode's loop over the sources.
Acc(t, pathtype, sizeDelta, childrenToTrees, err) ==
    [h |-> t, pathtype |-> pathtype, sizeDelta |-> sizeDelta,
     childrenToTrees |-> childrenToTrees, err |-> err]

RECURSIVE addChildren(_, _, _)
addChildren(c2t, children, src) ==
    IF children = <<>> THEN c2t
    ELSE addChildren([c2t EXCEPT ![children[1]] = Append(@, src)],
                     Tail(children), src)

\* Mutant of mergeSource: a source whose node type disagrees with the type
\* already determined is passed over.
mergeSourceSkipsMismatch(a, path, n, src) ==
    LET dest == a.h.fs[path]
        typed == IF a.pathtype # none THEN dest
                 ELSE IF nodetype(n) = directory
                      THEN [dest EXCEPT !.DirNode = DirectoryNodeProto(<<>>, Nil, Nil)]
                      ELSE [dest EXCEPT !.FileNode = FileNodeProto(<<>>)]
        t1 == SetNode(a.h, path, typed)
    IN  IF a.pathtype = none /\ nodetype(n) = none
        THEN Acc(a.h, a.pathtype, 0, a.childrenToTrees, Internal)
        ELSE IF a.pathtype # none /\ a.pathtype # nodetype(n)
        THEN a
        ELSE IF nodetype(n) = directory
        THEN Acc(t1, directory, a.sizeDelta,
                 addChildren(a.childrenToTrees, n.DirNode.Children, src), OK)
        ELSE Acc(SetNode(t1, path,
                    [typed EXCEPT !.FileNode.Objects = @ \o n.FileNode.Objects]),
                 file, a.sizeDelta + n.SubtreeSize, a.childrenToTrees, OK)

\* Mutant of mergeSource: a source file's objects are put in front of the
\* destination's.
mergeSourcePrepend(a, path, n, src) ==
    LET dest == a.h.fs[path]
        typed == IF a.pathtype # none THEN dest
                 ELSE IF nodetype(n) = directory
                      THEN [dest EXCEPT !.DirNode = DirectoryNodeProto(<<>>, Nil, Nil)]
                      ELSE [dest EXCEPT !.FileNode = FileNodeProto(<<>>)]
        t1 == SetNode(a.h, path, typed)
    IN  IF a.pathtype = none /\ nodetype(n) = none
        THEN Acc(a.h, a.pathtype, 0, a.childrenToTrees, Internal)
        ELSE IF a.pathtype # none /\ a.pathtype # nodetype(n)
        THEN Acc(a.h, a.pathtype, a.sizeDelta, a.childrenToTrees, PathConflict)
        ELSE IF nodetype(n) = directory
        THEN Acc(t1, directory, a.sizeDelta,
                 addChildren(a.childrenToTrees, n.DirNode.Children, src), OK)
        ELSE Acc(SetNode(t1, path,
                    [typed EXCEPT !.FileNode.Objects = n.FileNode.Objects \o @]),
                 file, a.sizeDelta + n.SubtreeSize, a.childrenToTrees, OK)

\* One source's node n merged into the destination node at path.
mergeSource(a, path, n, src) ==
    LET dest == a.h.fs[path]
        typed == IF a.pathtype # none THEN dest
                 ELSE IF nodetype(n) = directory
                      THEN [dest EXCEPT !.DirNode = DirectoryNodeProto(<<>>, Nil, Nil)]
                      ELSE [dest EXCEPT !.FileNode = FileNodeProto(<<>>)]
        t1 == SetNode(a.h, path, typed)
    IN  IF a.pathtype = none /\ nodetype(n) = none
        THEN Acc(a.h, a.pathtype, 0, a.childrenToTrees, Internal)
        ELSE IF a.pathtype # none /\ a.pathtype # nodetype(n)
        THEN Acc(a.h, a.pathtype, a.sizeDelta, a.childrenToTrees, PathConflict)
        ELSE IF nodetype(n) = directory
        THEN Acc(t1, directory, a.sizeDelta,
                 addChildren(a.childrenToTrees, n.DirNode.Children, src), OK)
        ELSE Acc(SetNode(t1, path,
                    [typed EXCEPT !.FileNode.Objects = @ \o n.FileNode.Objects]),
                 file, a.sizeDelta + n.SubtreeSize, a.childrenToTrees, OK)

RECURSIVE mergeSources(_, _, _)
mergeSources(a, path, srcs) ==
    IF srcs = <<>> \/ a.err # OK THEN a
    ELSE LET g == get(srcs[1].Fs, path)
         IN  IF g.err = PathNotFound THEN mergeSources(a, path, Tail(srcs))
             ELSE mergeSources(mergeSource(a, path, g.node, srcs[1]), path,
                               Tail(srcs))

RECURSIVE mergeNode(_, _, _, _)
RECURSIVE mergeChildren(_, _, _, _, _)

\* Mutant of mergeChildren: the size a child has grown by is not added to the
\* size of its parent.
mergeChildrenNoSize(a, path, cs, ord, c2t) ==
    IF cs = <<>> THEN a
    ELSE IF c2t[cs[1]] = <<>> THEN mergeChildren(a, path, Tail(cs), ord, c2t)
    ELSE LET r == mergeNode(a.h, join(path, cs[1]), c2t[cs[1]], ord)
         IN  IF r.err # OK
             THEN Acc(r.h, a.pathtype, a.sizeDelta, c2t, r.err)
             ELSE mergeChildren(
                    Acc(SetNode(r.h, path,
                          [r.h.fs[path] EXCEPT
                              !.DirNode.Children = insertStr(@, cs[1])]),
                        a.pathtype, a.sizeDelta, c2t, OK),
                    path, Tail(cs), ord, c2t)

\* The loop over childrenToTrees, visiting its keys in the order of cs.
mergeChildren(a, path, cs, ord, c2t) ==
    IF cs = <<>> THEN a
    ELSE IF c2t[cs[1]] = <<>> THEN mergeChildren(a, path, Tail(cs), ord, c2t)
    ELSE LET r == mergeNode(a.h, join(path, cs[1]), c2t[cs[1]], ord)
         IN  IF r.err # OK
             THEN Acc(r.h, a.pathtype, a.sizeDelta, c2t, r.err)
             ELSE mergeChildren(
                    Acc(SetNode(r.h, path,
                          [r.h.fs[path] EXCEPT
                              !.DirNode.Children = insertStr(@, cs[1])]),
                        a.pathtype, a.sizeDelta + r.sizeDelta, c2t, OK),
                    path, Tail(cs), ord, c2t)

\* Mutant of mergeNode: the destination is not marked changed.
mergeNodeNoMark(t, rawPath, srcs, ord) ==
    LET path == clean(rawPath)
        t0 == IF Has(t, path) THEN t
              ELSE SetNode(t, path, NodeProto(base(path), Nil, 0, Nil, Nil))
        a0 == Acc(t0, nodetype(t0.fs[path]), 0, [c \in Names |-> <<>>], OK)
        a1 == mergeSources(a0, path, srcs)
        a2 == IF a1.err = OK /\ a1.pathtype = directory
              THEN mergeChildren(a1, path, ord, ord, a1.childrenToTrees)
              ELSE a1
    IN  IF a2.err # OK
        THEN [h |-> a2.h, sizeDelta |-> a2.sizeDelta, err |-> a2.err]
        ELSE [h |-> SetNode(a2.h, path,
                       [a2.h.fs[path] EXCEPT !.SubtreeSize = @ + a2.sizeDelta]),
              sizeDelta |-> a2.sizeDelta, err |-> OK]

\* mergeNode: the tree, the size added at path, the error.  ord is the order
\* in which the range over childrenToTrees visits the names.
mergeNode(t, rawPath, srcs, ord) ==
    LET path == clean(rawPath)
        t0 == IF Has(t, path) THEN t
              ELSE SetNode(t, path, NodeProto(base(path), Nil, 0, Nil, Nil))
        a0 == Acc(t0, nodetype(t0.fs[path]), 0, [c \in Names |-> <<>>], OK)
        a1 == mergeSources(a0, path, srcs)
        a2 == IF a1.err = OK /\ a1.pathtype = directory
              THEN mergeChildren(a1, path, ord, ord, a1.childrenToTrees)
              ELSE a1
    IN  IF a2.err # OK
        THEN [h |-> a2.h, sizeDelta |-> a2.sizeDelta, err |-> a2.err]
        ELSE [h |-> Mark(SetNode(a2.h, path,
                       [a2.h.fs[path] EXCEPT !.SubtreeSize = @ + a2.sizeDelta]), path),
              sizeDelta |-> a2.sizeDelta, err |-> OK]

nonEmptyTrees(trees) == SelectSeq(trees, LAMBDA tr : get(tr.Fs, <<>>).err = OK)

\* Mutant of Merge: every tree passed goes to mergeNode, and mergeNode runs
\* even when no tree has a root.
MergeNoSkip(t, trees, ord) ==
    LET r == mergeNode(t, <<>>, trees, ord)
    IN  Res(r.h, r.err)

Merge(t, trees, ord) ==
    IF nonEmptyTrees(trees) = <<>> THEN Res(t, OK)
    ELSE LET r == mergeNode(t, <<>>, nonEmptyTrees(trees), ord)
         IN  Res(r.h, r.err)

----------------------------------------------------------------------------
(* The calls a behaviour makes, and their arguments *)

\* "/", "/a", "/b", "/a/./b" and "/*".
RawPaths == {<<>>, <<"a">>, <<"b">>, <<"a", ".", "b">>, <<"*">>}

ObjLists == {<<>>, <<X>>, <<Y, X>>}

\* The objects and the overwrite index of one PutFileOverwrite call.
OverwriteArgs ==
    {[objects |-> <<>>, index |-> [Index |-> 0]],
     [objects |-> <<Y>>, index |-> [Index |-> 0]],
     [objects |-> <<Y>>, index |-> [Index |-> 1]],
     [objects |-> <<Y>>, index |-> [Index |-> 2]]}

SplitObjLists == {<<>>, <<X>>}

SizeDeltas == {1}

\* The header, footer and headerFooterSize of one PutFileSplit call.
Splits == {[header |-> HeaderObj, footer |-> FooterObj,
            size |-> ObjBytes(HeaderObj) + ObjBytes(FooterObj)]}

\* Finished trees a caller may hold and pass to Merge.
SrcA == Finish(PutFile(NewHashTree, <<"a">>, <<X>>, 1).h).tree

SrcAB == Finish(PutFile(NewHashTree, <<"a", "b">>, <<Y>>, 2).h).tree

SrcBA == Finish(PutFile(PutFile(NewHashTree, <<"b">>, <<X>>, 1).h,
                        <<"a">>, <<Y>>, 1).h).tree

\* The zero HashTreeProto: no root entry.
EmptyProto == HashTreeProto(<<>>, 0)

MergeArgs == {<<>>, <<SrcA>>, <<SrcA, SrcBA>>, <<SrcBA, SrcA>>, <<SrcA, SrcAB>>,
              <<EmptyProto>>, <<EmptyProto, SrcAB, SrcAB>>}

\* The names that occur in the trees of MergeArgs.
MergeNames == {"a", "b"}

ChildOrders == Orders(MergeNames)

Call(op, path, objects, index, sz, header, footer, hfSize, trees, err) ==
    [op |-> op, path |-> path, objects |-> objects, index |-> index,
     size |-> sz, header |-> header, footer |-> footer, hfSize |-> hfSize,
     trees |-> trees, err |-> err]

\* The handles a caller holds: the open tree, a second open tree, and the
\* finished tree.
Handles == {"h", "h2", "fin"}

\* The sharing after handle a is bound to a copy of what src points to: a map
\* of its own when the copy is deep, the map of src when it is not.
Rebind(sh, a, src, deep) ==
    LET rest == {pr \in sh : a \notin pr}
    IN  IF deep THEN rest
        ELSE rest \cup {{a, src}}
                  \cup {{a, c} : c \in {c \in Handles \ {a, src} : {src, c} \in rest}}

\* No read-only call has been made.
NoOut == [op |-> "none"]

NoCall == Call("none", <<>>, <<>>, Nil, 0, Nil, Nil, 0, <<>>, OK)

NoPut == [call |-> NoCall, h |-> EmptyTree, at |-> 0 - 1, ok |-> TRUE]

NewCall == Call("NewHashTree", <<>>, <<>>, Nil, 0, Nil, Nil, 0, <<>>, OK)

FinishCall(err) == Call("Finish", <<>>, <<>>, Nil, 0, Nil, Nil, 0, <<>>, err)

OpenCall(op) == Call(op, <<>>, <<>>, Nil, 0, Nil, Nil, 0, <<>>, OK)

\* The states a behaviour starts from: a new tree, trees built from it by the
\* calls below, such trees just after Finish(), and a finished tree just
\* reopened.
InitStates ==
    LET t0 == NewHashTree
        t1 == PutFile(t0, <<"a", "b">>, <<X>>, 1).h
        t2 == PutFile(PutFile(t0, <<"b">>, <<Y>>, 1).h, <<"a">>, <<X>>, 1).h
        t3 == PutDir(t0, <<"a">>).h
        Fresh(t) == [h |-> t, fin |-> Nil, last |-> NewCall, shares |-> {},
                     prev |-> NoPut, opened |-> FALSE]
        Finished(t) ==
            LET f == Finish(t)
            IN  [h |-> f.h, fin |-> f.tree, last |-> FinishCall(f.err),
                 shares |-> Rebind({}, "fin", "h", f.deep), prev |-> NoPut,
                 opened |-> FALSE]
        Reopened(t) ==
            LET f == Finish(t)
                o == Open(f.tree)
            IN  [h |-> o.h, fin |-> f.tree, last |-> OpenCall("Open"),
                 shares |-> Rebind({}, "h", "fin", o.deep),
                 prev |-> [call |-> OpenCall("Open"), h |-> f.h, at |-> 0,
                           ok |-> TRUE],
                 opened |-> TRUE]
    IN  {Fresh(t0), Fresh(t1), Finished(t1), Finished(t2), Finished(t3),
         Reopened(t2)}

\* The auth server before it is activated: nothing stored, nothing cached and no
\* call of GetConfiguration under way.
AuthIdle ==
    /\ authConfig = Nil
    /\ events = <<>>
    /\ configCache = Nil
    /\ samlSP = Nil
    /\ getCfg = <<>>
    /\ lastSet = Nil

Init ==
    /\ AuthIdle
    /\ \E s \in InitStates :
           /\ h = s.h
           /\ fin = s.fin
           /\ last = s.last
           /\ shares = s.shares
           /\ prev = s.prev
           /\ opened = s.opened
    /\ nops = 0
    /\ allOk = TRUE
    /\ h2 = EmptyTree
    /\ log1 = <<>>
    /\ log2 = <<>>
    /\ out = NoOut

\* What every call does besides changing the trees.
Step(r, call) ==
    /\ nops < MaxOps
    /\ h' = r.h
    /\ last' = call
    /\ nops' = nops + 1
    /\ allOk' = (allOk /\ r.err = OK)
    /\ prev' = IF call.op \in {"PutFile", "Open"}
               THEN [call |-> call, h |-> h, at |-> nops', ok |-> allOk]
               ELSE IF prev.at = nops THEN prev
               ELSE NoPut
    /\ UNCHANGED <<log1, log2, out, authVars>>

\* A call that writes to the map of the open tree: every handle that points
\* to that map sees the writes.
Mutate(r, call) ==
    /\ Step(r, call)
    /\ fin' = IF {"h", "fin"} \in shares /\ fin # Nil
              THEN HashTreeProto(r.h.fs, fin.Version) ELSE fin
    /\ h2' = IF {"h", "h2"} \in shares THEN Tree(r.h.fs, h2.changed) ELSE h2
    /\ UNCHANGED <<shares, opened>>

DoPutFile ==
    \E p \in RawPaths, objs \in ObjLists, d \in SizeDeltas :
        LET r == PutFile(h, p, objs, d)
        IN  Mutate(r, Call("PutFile", p, objs, Nil, d, Nil, Nil, 0, <<>>, r.err))

DoPutFileOverwrite ==
    \E p \in RawPaths, a \in OverwriteArgs, d \in SizeDeltas :
        LET r == PutFileOverwrite(h, p, a.objects, a.index, d)
        IN  Mutate(r, Call("PutFileOverwrite", p, a.objects, a.index, d, Nil, Nil,
                           0, <<>>, r.err))

DoPutFileSplit ==
    \E p \in RawPaths, objs \in SplitObjLists, d \in SizeDeltas, s \in Splits :
        LET r == PutFileSplit(h, p, objs, d, s.header, s.footer, s.size)
        IN  Mutate(r, Call("PutFileSplit", p, objs, Nil, d, s.header, s.footer,
                           s.size, <<>>, r.err))

DoPutDir ==
    \E p \in RawPaths :
        LET r == PutDir(h, p)
        IN  Mutate(r, Call("PutDir", p, <<>>, Nil, 0, Nil, Nil, 0, <<>>, r.err))

DoDeleteFile ==
    \E p \in RawPaths :
        \E order \in Orders(glob(h.fs, deletePattern(p)).paths) :
            LET r == DeleteFile(h, p, order)
            IN  Mutate(r, Call("DeleteFile", p, <<>>, Nil, 0, Nil, Nil, 0, <<>>, r.err))

DoMerge ==
    \E trees \in MergeArgs, ord \in ChildOrders :
        LET r == Merge(h, trees, ord)
        IN  Mutate(r, Call("Merge", <<>>, <<>>, Nil, 0, Nil, Nil, 0, trees, r.err))

\* fin := h.Finish().  Canonicalization writes the hashes into the map of h.
DoFinish ==
    LET r == Finish(h)
    IN  /\ Step(r, FinishCall(r.err))
        /\ fin' = r.tree
        /\ h2' = IF {"h", "h2"} \in shares THEN Tree(r.h.fs, h2.changed) ELSE h2
        /\ shares' = Rebind(shares, "fin", "h", r.deep)
        /\ opened' = FALSE

\* h.Finish() again, the caller keeping the finished tree it already holds.
DoFinishAgain ==
    /\ fin # Nil
    /\ LET r == Finish(h)
       IN  Mutate(r, Call("FinishAgain", <<>>, <<>>, Nil, 0, Nil, Nil, 0, <<>>, r.err))

\* h := fin.Open(): the caller goes on with the reopened tree.
DoOpen ==
    /\ fin # Nil
    /\ LET r == Open(fin)
       IN  /\ Step(r, OpenCall("Open"))
           /\ shares' = Rebind(shares, "h", "fin", r.deep)
           /\ opened' = TRUE
           /\ UNCHANGED <<fin, h2>>

\* h2 := fin.Open(): a second open tree of the same finished tree.
DoOpenSecond ==
    /\ fin # Nil
    /\ LET r == Open(fin)
       IN  /\ Step([h |-> h, err |-> OK], OpenCall("OpenSecond"))
           /\ h2' = r.h
           /\ shares' = Rebind(shares, "h2", "fin", r.deep)
           /\ UNCHANGED <<fin, opened>>

Next ==
    \/ DoPutFile
    \/ DoPutFileOverwrite
    \/ DoPutFileSplit
    \/ DoPutDir
    \/ DoDeleteFile
    \/ DoMerge
    \/ DoFinish
    \/ DoFinishAgain
    \/ DoOpen
    \/ DoOpenSecond

Spec == Init /\ [][Next]_vars

----------------------------------------------------------------------------
(* Two trees: one built call by call, one built by a fixed script *)

PutCall(path, objects, sz) ==
    Call("PutFile", path, objects, Nil, sz, Nil, Nil, 0, <<>>, OK)

PutDirCall(path) == Call("PutDir", path, <<>>, Nil, 0, Nil, Nil, 0, <<>>, OK)

SplitCall(path, objects, sz, header, footer, hfSize) ==
    Call("PutFileSplit", path, objects, Nil, sz, header, footer, hfSize, <<>>, OK)

\* The calls SpecPair makes on its first tree.
PairCalls ==
    {PutCall(<<"a">>, <<X>>, 1), PutCall(<<"a">>, <<X>>, 2),
     PutCall(<<"a">>, <<Y>>, 1), PutCall(<<"a">>, <<XY>>, 1),
     PutCall(<<"b">>, <<X>>, 1), PutCall(<<"a", "b">>, <<X>>, 1),
     PutCall(<<"a", "a">>, <<Y>>, 1), PutDirCall(<<"a">>),
     SplitCall(<<"a">>, <<>>, 1, HeaderObj, FooterObj, 2)}

\* The scripts that build SpecPair's second tree.
PairScripts ==
    {<<PutCall(<<"a">>, <<X>>, 1)>>,
     <<PutCall(<<"a">>, <<X>>, 1), PutCall(<<"a">>, <<Y>>, 1)>>,
     <<PutDirCall(<<"a">>)>>,
     <<PutCall(<<"a", "b">>, <<X>>, 1), PutCall(<<"b">>, <<X>>, 1)>>,
     <<PutCall(<<"a", "b">>, <<X>>, 1), PutCall(<<"a", "a">>, <<Y>>, 1),
       PutCall(<<"b">>, <<X>>, 1)>>}

Apply(t, c) ==
    CASE c.op = "PutFile" -> PutFile(t, c.path, c.objects, c.size)
      [] c.op = "PutFileSplit" ->
            PutFileSplit(t, c.path, c.objects, c.size, c.header, c.footer, c.hfSize)
      [] c.op = "PutDir" -> PutDir(t, c.path)

RECURSIVE Build(_, _)
Build(t, script) ==
    IF script = <<>> THEN t ELSE Build(Apply(t, script[1]).h, Tail(script))

InitPair ==
    /\ AuthIdle
    /\ h = NewHashTree
    /\ fin = Nil
    /\ last = NewCall
    /\ prev = NoPut
    /\ shares = {}
    /\ opened = FALSE
    /\ out = NoOut
    /\ nops = 0
    /\ allOk = TRUE
    /\ log1 = <<>>
    /\ \E script \in PairScripts :
           /\ log2 = script
           /\ h2 = Build(NewHashTree, script)

PairCall ==
    \E c \in PairCalls :
        LET r == Apply(h, c)
        IN  /\ Len(log1) < MaxPairOps
            /\ h' = r.h
            /\ log1' = Append(log1, c)
            /\ last' = [c EXCEPT !.err = r.err]
            /\ nops' = nops + 1
            /\ allOk' = (allOk /\ r.err = OK)
            /\ UNCHANGED <<fin, h2, log2, prev, shares, opened, out, authVars>>

NextPair == PairCall

SpecPair == InitPair /\ [][NextPair]_vars

----------------------------------------------------------------------------
(* Finished trees built by put calls, merged into a new tree *)

\* The put calls that build one source tree.
MergeScripts ==
    {<<>>,
     <<PutCall(<<"a">>, <<X>>, 1)>>,
     <<PutCall(<<"a">>, <<Y>>, 2)>>,
     <<PutCall(<<"a", "b">>, <<X>>, 1)>>,
     <<PutDirCall(<<"a">>)>>,
     <<PutCall(<<"a", "b">>, <<Y, X>>, 2), PutCall(<<"b">>, <<X>>, 1)>>,
     <<PutDirCall(<<"a", "b">>), PutCall(<<"a", "a">>, <<Y>>, 1)>>,
     <<PutCall(<<"b">>, <<X>>, 1), PutCall(<<"b">>, <<Y>>, 1)>>,
     <<PutDirCall(<<"b">>)>>}

\* The most trees one Merge call is given.
MaxSources == 3

\* The scripts of the trees given to one Merge call, in the order of its
\* arguments.
ScriptSeqs == UNION {[1..n -> MergeScripts] : n \in 1..MaxSources}

RECURSIVE Flatten(_)
\* The calls of all the scripts, in order.
Flatten(scripts) ==
    IF scripts = <<>> THEN <<>> ELSE scripts[1] \o Flatten(Tail(scripts))

RECURSIVE BuildOk(_, _)
\* Every call of the script returns a nil error.
BuildOk(t, script) ==
    IF script = <<>> THEN TRUE
    ELSE /\ Apply(t, script[1]).err = OK
         /\ BuildOk(Apply(t, script[1]).h, Tail(script))

InitMerge ==
    /\ AuthIdle
    /\ h = NewHashTree
    /\ fin = Nil
    /\ last = NewCall
    /\ prev = NoPut
    /\ shares = {}
    /\ opened = FALSE
    /\ out = NoOut
    /\ nops = 0
    /\ allOk = TRUE
    /\ h2 = NewHashTree
    /\ log1 = <<>>
    /\ log2 = <<>>

\* h.Merge(T1, ..., Tn) on the new tree, each Ti finished after its script;
\* h2 is the tree all the calls of the scripts build one after the other.
DoMergeBuilt ==
    \E scripts \in ScriptSeqs, ord \in ChildOrders :
        LET trees == [i \in 1..Len(scripts) |->
                          Finish(Build(NewHashTree, scripts[i])).tree]
            r == Merge(h, trees, ord)
        IN  /\ nops = 0
            /\ \A i \in 1..Len(scripts) : BuildOk(NewHashTree, scripts[i])
            /\ h' = r.h
            /\ last' = Call("Merge", <<>>, <<>>, Nil, 0, Nil, Nil, 0, trees, r.err)
            /\ nops' = 1
            /\ allOk' = (r.err = OK)
            /\ log2' = Flatten(scripts)
            /\ h2' = Build(NewHashTree, Flatten(scripts))
            /\ UNCHANGED <<fin, log1, prev, shares, opened, out, authVars>>

\* fin := h.Finish() after the Merge.
DoFinishMerged ==
    LET r == Finish(h)
    IN  /\ nops = 1
        /\ h' = r.h
        /\ fin' = r.tree
        /\ last' = FinishCall(r.err)
        /\ nops' = 2
        /\ allOk' = (allOk /\ r.err = OK)
        /\ UNCHANGED <<h2, log1, log2, prev, shares, opened, out, authVars>>

NextMerge ==
    \/ DoMergeBuilt
    \/ DoFinishMerged

SpecMerge == InitMerge /\ [][NextMerge]_vars

----------------------------------------------------------------------------
(* Read-only calls on a tree and its finished form *)

\* The open trees the read-only calls are made on.
ReadTrees ==
    LET t1 == PutFile(NewHashTree, <<"a">>, <<X>>, 1).h
        t2 == PutFile(NewHashTree, <<"a", "b">>, <<Y>>, 2).h
        t3 == PutFile(t1, <<"b">>, <<Y, X>>, 2).h
        t4 == PutFile(NewHashTree, <<"a", "b", "a">>, <<X>>, 1).h
        t5 == PutFile(PutFile(NewHashTree, <<"a", "b", "a">>, <<Y>>, 1).h,
                      <<"a", "b", "b">>, <<X>>, 1).h
        t6 == PutDir(NewHashTree, <<"a", "b">>).h
        t7 == PutFileSplit(t1, <<"b">>, <<>>, 0, HeaderObj, FooterObj, 2).h
        t8 == PutFile(t2, <<"*">>, <<X>>, 1).h
        t9 == PutFile(NewHashTree, <<"a", "b">>, <<EmptyHashObj>>, 1).h
        t10 == PutFile(t2, <<"ab">>, <<X>>, 1).h
    IN  {NewHashTree, t1, t2, t3, t4, t5, t6, t7, t8, t9, t10}

\* The finished trees a caller may hold and pass to Diff as the old tree.
OldTrees == {Finish(t).tree : t \in ReadTrees} \cup {EmptyProto}

\* "/", "/a", "/b", "/a/b", "/a/." and "/a/*".
ReadPaths == {<<>>, <<"a">>, <<"b">>, <<"a", "b">>, <<"a", ".">>, <<"a", "*">>}

\* The names of the nodes of a map.
NamesIn(fs) == {base(q) : q \in DOMAIN fs \ {<<>>}}

\* The sets of paths on which the visitor passed to Walk returns an error.
FailSets == {{}, {<<"a">>}, {<<"a", "b">>, <<"b">>}}

\* -1 is the depth without a bound.
Depths == {0 - 1, 0, 1, 2}

\* The version fields of the envelopes handed to Deserialize.
Versions == {0 - 1, 0, 1, 2}

InitRead ==
    /\ AuthIdle
    /\ \E t \in ReadTrees :
           /\ h = t
           /\ fin = Finish(t).tree
    /\ last = NewCall
    /\ prev = NoPut
    /\ shares = {}
    /\ opened = FALSE
    /\ nops = 0
    /\ allOk = TRUE
    /\ h2 = EmptyTree
    /\ log1 = <<>>
    /\ log2 = <<>>
    /\ out = NoOut

\* What every read-only call leaves alone.  A read-only call does not depend
\* on the read-only calls before it, so a behaviour makes one, and may hand
\* what Serialize returned to Deserialize.
Read ==
    UNCHANGED <<h, fin, last, nops, allOk, h2, log1, log2, prev, shares, opened,
                authVars>>

\* List on the open tree or on the finished one.
DoList ==
    \E fs \in {h.fs, fin.Fs}, path \in ReadPaths :
        LET r == list(fs, path)
        IN  /\ out = NoOut
            /\ out' = [op |-> "List", fs |-> fs, path |-> path,
                       nodes |-> r.nodes, err |-> r.err]
            /\ Read

\* Glob on the open tree or on the finished one.
DoGlob ==
    \E fs \in {h.fs, fin.Fs}, pattern \in ReadPaths :
        LET r == glob(fs, pattern)
        IN  /\ out = NoOut
            /\ out' = [op |-> "Glob", fs |-> fs, path |-> pattern,
                       paths |-> r.paths, err |-> r.err]
            /\ Read

\* fin.Diff(old, newPath, oldPath, depth, f).
DoDiff ==
    /\ out = NoOut
    /\ \E old \in OldTrees, newPath \in ReadPaths, oldPath \in ReadPaths :
        \E depth \in Depths, ord \in Orders(NamesIn(fin.Fs) \cup NamesIn(old.Fs)) :
            /\ out' = [op |-> "Diff", old |-> old, newPath |-> newPath,
                       oldPath |-> oldPath, depth |-> depth,
                       calls |-> diff(fin.Fs, old.Fs, newPath, oldPath, depth, ord)]
            /\ Read

\* Walk on the open tree or on the finished one.
DoWalk ==
    /\ out = NoOut
    /\ \E fs \in {h.fs, fin.Fs}, path \in ReadPaths, fails \in FailSets :
           \E order \in Orders(DOMAIN fs) :
               LET r == walk(fs, path, order, fails)
               IN  /\ out' = [op |-> "Walk", fs |-> fs, path |-> path, fails |-> fails,
                              calls |-> r.calls, err |-> r.err]
                   /\ Read

\* Serialize on the finished tree or on the open one.
DoSerialize ==
    \E x \in {fin, h} :
        \E order \in Orders(IF "Fs" \in DOMAIN x THEN DOMAIN x.Fs ELSE {}) :
            LET r == Serialize(x, order)
            IN  /\ out = NoOut
                /\ out' = [op |-> "Serialize", arg |-> x, bytes |-> r.bytes,
                           err |-> r.err]
                /\ Read

\* Deserialize on the bytes Serialize has just returned, on such bytes with
\* another version field, and on bytes cut short.
DoDeserialize ==
    \E v \in Versions, cut \in BOOLEAN :
        LET given == out.bytes
            versioned == IF v = 1 THEN given
                         ELSE FieldsOf(given, "fs")
                              \o (IF v = 0 THEN <<>> ELSE <<Field("version", v)>>)
            bytes == IF cut THEN Truncate(versioned) ELSE versioned
            r == Deserialize(bytes)
        IN  /\ out.op = "Serialize"
            /\ out' = [op |-> "Deserialize", from |-> out, bytes |-> bytes,
                       tree |-> r.tree, err |-> r.err]
            /\ Read

NextRead ==
    \/ DoList
    \/ DoGlob
    \/ DoDiff
    \/ DoWalk
    \/ DoSerialize
    \/ DoDeserialize

SpecRead == InitRead /\ [][NextRead]_vars

----------------------------------------------------------------------------
(* The auth server's cache of the auth config *)

\* The highest version SetConfiguration stores.
MaxVersion == 3

\* The most events the watcher holds undelivered.
MaxEvents == 2

\* The most GetConfiguration calls under way at a time.
MaxRequests == 1

AuthError == "error"

\* auth.IDProvider: a SAML provider, one without a name, one of no known type.
SAMLProvider == [Name |-> "saml", SAML |-> TRUE]

IDProviderLists ==
    {<<>>, <<SAMLProvider>>, <<[Name |-> "", SAML |-> TRUE]>>,
     <<[Name |-> "ldap", SAML |-> FALSE]>>, <<SAMLProvider, SAMLProvider>>}

\* auth.AuthConfig_SAMLServiceOptions with well-formed URLs.
SvcOptions == [ACSURL |-> "acs", MetadataURL |-> "metadata"]

AuthConfigProto(version, idps, svc) ==
    [LiveConfigVersion |-> version, IDProviders |-> idps, SAMLServiceOptions |-> svc]

defaultAuthConfig == AuthConfigProto(1, <<>>, Nil)

canonicalConfig(version, idps, svc) ==
    [Version |-> version, IDPs |-> idps, SAMLSvc |-> svc]

\* validateIDP: the provider has a name and is a SAML provider.
validateIDP(idp) ==
    IF idp.Name = "" \/ ~idp.SAML THEN [idp |-> Nil, err |-> AuthError]
    ELSE [idp |-> idp, err |-> OK]

\* validateConfig: at most one SAML provider, every provider valid, and the
\* SAML service options set exactly when there is a SAML provider.
validateConfig(config) ==
    LET idps == config.IDProviders
        saml == {i \in DOMAIN idps : idps[i].SAML}
        bad == [cfg |-> Nil, err |-> AuthError]
    IN  IF Cardinality(saml) > 1 THEN bad
        ELSE IF \E i \in DOMAIN idps : validateIDP(idps[i]).err # OK THEN bad
        ELSE IF saml = {} /\ config.SAMLServiceOptions # Nil THEN bad
        ELSE IF saml # {} /\ config.SAMLServiceOptions = Nil THEN bad
        ELSE [cfg |-> canonicalConfig(config.LiveConfigVersion, idps,
                                      config.SAMLServiceOptions),
              err |-> OK]

\* canonicalConfig.ToProto: the proto to store; the version is not carried.
ToProto(c) ==
    IF c.IDPs = <<>> THEN AuthConfigProto(0, <<>>, Nil)
    ELSE AuthConfigProto(0, c.IDPs, c.SAMLSvc)

RECURSIVE serviceProvider(_, _, _)
\* The loop of setCacheConfig over the ID providers of the new config: the
\* service provider of the last SAML provider, or sp when there is none.
serviceProvider(newConfig, idps, sp) ==
    IF idps = <<>> THEN sp
    ELSE serviceProvider(newConfig, Tail(idps),
             IF idps[1].SAML
             THEN [IDPMetadata |-> idps[1].Name,
                   AcsURL |-> newConfig.SAMLSvc.ACSURL,
                   MetadataURL |-> newConfig.SAMLSvc.MetadataURL]
             ELSE sp)

\* What setCacheConfig leaves in the cache, and the error it returns.
Cached(cache, sp, err) == [configCache |-> cache, samlSP |-> sp, err |-> err]

\* Mutant of setCacheConfig: a config of any version replaces the cached one.
setCacheConfigAnyVersion(cache, sp, config) ==
    IF config = Nil THEN Cached(Nil, Nil, OK)
    ELSE LET v == validateConfig(config)
         IN  IF v.err # OK THEN Cached(cache, sp, v.err)
             ELSE Cached(v.cfg, serviceProvider(v.cfg, v.cfg.IDPs, Nil), OK)

\* setCacheConfig, run under configMu and samlSPMu.
setCacheConfig(cache, sp, config) ==
    IF config = Nil THEN Cached(Nil, Nil, OK)
    ELSE LET v == validateConfig(config)
         IN  IF v.err # OK THEN Cached(cache, sp, v.err)
             ELSE IF cache # Nil /\ v.cfg.Version < cache.Version
             THEN Cached(cache, sp, AuthError)
             ELSE Cached(v.cfg, serviceProvider(v.cfg, v.cfg.IDPs, Nil), OK)

\* The configs callers pass to SetConfiguration; Nil is a request without one.
ReqConfigs ==
    {Nil} \cup {AuthConfigProto(v, idps, svc) :
                    v \in {0, 2}, idps \in IDProviderLists, svc \in {Nil, SvcOptions}}

\* The sequence without its i-th element.
Without(seq, i) == SubSeq(seq, 1, i - 1) \o SubSeq(seq, i + 1, Len(seq))

EventPut(config) == [Type |-> "EventPut", config |-> config]

EventDelete == [Type |-> "EventDelete", config |-> Nil]

treeVars == <<h, fin, last, nops, allOk, h2, log1, log2, prev, shares, opened, out>>

InitAuth ==
    /\ AuthIdle
    /\ h = NewHashTree
    /\ fin = Nil
    /\ last = NewCall
    /\ prev = NoPut
    /\ shares = {}
    /\ opened = FALSE
    /\ out = NoOut
    /\ nops = 0
    /\ allOk = TRUE
    /\ h2 = EmptyTree
    /\ log1 = <<>>
    /\ log2 = <<>>

\* SetConfiguration: validates the request, then in one transaction checks
\* the version and stores the config under the next version; the watcher
\* sees the write.
DoSetConfiguration ==
    \E req \in ReqConfigs :
        LET v == IF req = Nil THEN [cfg |-> Nil, err |-> OK] ELSE validateConfig(req)
            reqConfigVersion == IF req = Nil THEN 0 ELSE req.LiveConfigVersion
            configToStore == IF req = Nil THEN defaultAuthConfig ELSE ToProto(v.cfg)
            liveConfig == IF authConfig = Nil THEN defaultAuthConfig ELSE authConfig
            liveConfigVersion == liveConfig.LiveConfigVersion
            stored == [configToStore EXCEPT !.LiveConfigVersion = liveConfigVersion + 1]
        IN  /\ v.err = OK
            /\ ~(reqConfigVersion > 0 /\ liveConfigVersion # reqConfigVersion)
            /\ liveConfigVersion < MaxVersion
            /\ Len(events) < MaxEvents
            /\ authConfig' = stored
            /\ events' = Append(events, EventPut(stored))
            /\ UNCHANGED <<configCache, samlSP, getCfg, lastSet, treeVars>>

\* Deactivate deletes the stored config; the watcher sees the delete.
DoDeactivate ==
    /\ authConfig # Nil
    /\ Len(events) < MaxEvents
    /\ authConfig' = Nil
    /\ events' = Append(events, EventDelete)
    /\ UNCHANGED <<configCache, samlSP, getCfg, lastSet, treeVars>>

\* One round of the loop of watchConfig: the next event goes to setCacheConfig.
DoWatchEvent ==
    /\ events # <<>>
    /\ LET ev == Head(events)
           r == setCacheConfig(configCache, samlSP, ev.config)
       IN  /\ configCache' = r.configCache
           /\ samlSP' = r.samlSP
           /\ lastSet' = [by |-> "watchConfig", config |-> ev.config, err |-> r.err]
    /\ events' = Tail(events)
    /\ UNCHANGED <<authConfig, getCfg, treeVars>>

\* The watch fails and watchConfig retries: the new watcher starts with the
\* config that exists.
DoWatchRetry ==
    /\ events' = IF authConfig = Nil THEN <<>> ELSE <<EventPut(authConfig)>>
    /\ events' # events
    /\ UNCHANGED <<authConfig, configCache, samlSP, getCfg, lastSet, treeVars>>

\* GetConfiguration reads the stored config; when there is none it returns
\* the default config at once.
DoGetConfigurationRead ==
    /\ Len(getCfg) < MaxRequests
    /\ getCfg' = IF authConfig = Nil THEN getCfg
                 ELSE Append(getCfg, [pc |-> "read", currentCfg |-> authConfig])
    /\ getCfg' # getCfg
    /\ UNCHANGED <<authConfig, events, configCache, samlSP, lastSet, treeVars>>

\* GetConfiguration compares what it read with a copy of the cache, and
\* returns when the cache is not older.
DoGetConfigurationCompare ==
    \E i \in DOMAIN getCfg :
        LET cacheCfg == configCache
            stale == IF cacheCfg = Nil THEN TRUE
                     ELSE cacheCfg.Version < getCfg[i].currentCfg.LiveConfigVersion
        IN  /\ getCfg[i].pc = "read"
            /\ getCfg' = IF stale THEN [getCfg EXCEPT ![i].pc = "set"]
                         ELSE Without(getCfg, i)
            /\ UNCHANGED <<authConfig, events, configCache, samlSP, lastSet, treeVars>>

\* GetConfiguration hands what it read to setCacheConfig, and returns.
DoGetConfigurationSet ==
    \E i \in DOMAIN getCfg :
        LET r == setCacheConfig(configCache, samlSP, getCfg[i].currentCfg)
        IN  /\ getCfg[i].pc = "set"
            /\ configCache' = r.configCache
            /\ samlSP' = r.samlSP
            /\ lastSet' = [by |-> "GetConfiguration", config |-> getCfg[i].currentCfg,
                           err |-> r.err]
            /\ getCfg' = Without(getCfg, i)
            /\ UNCHANGED <<authConfig, events, treeVars>>

NextAuth ==
    \/ DoSetConfiguration
    \/ DoDeactivate
    \/ DoWatchEvent
    \/ DoWatchRetry
    \/ DoGetConfigurationRead
    \/ DoGetConfigurationCompare
    \/ DoGetConfigurationSet

SpecAuth == InitAuth /\ [][NextAuth]_vars

----------------------------------------------------------------------------
(* Vocabulary of the properties *)

PutOps == {"PutFile", "PutFileOverwrite", "PutFileSplit", "PutDir"}

Parent(path) == SubSeq(path, 1, Len(path) - 1)

\* The strict ancestors of a path, the root included.
Ancestors(path) == {SubSeq(path, 1, k) : k \in 0..(Len(path) - 1)}

\* The paths of fs directly under dir.
ChildPaths(fs, dir) == {q \in DOMAIN fs : q # <<>> /\ Parent(q) = dir}

IsDir(fs, path) == path \in DOMAIN fs /\ fs[path].DirNode # Nil

IsFile(fs, path) ==
    path \in DOMAIN fs /\ fs[path].DirNode = Nil /\ fs[path].FileNode # Nil

\* Some strict ancestor of path exists and is not a directory.
AncestorConflict(fs, path) ==
    \E q \in Ancestors(path) : q \in DOMAIN fs /\ ~IsDir(fs, q)

StrictlyAscending(ss) ==
    \A i, j \in 1..Len(ss) : i < j => Rank(ss[i]) < Rank(ss[j])

\* The bytes child.name + ":" + child.hash + ":" for each listed child, in
\* the order of the list.
RECURSIVE ListedBytes(_, _, _)
ListedBytes(fs, dir, children) ==
    IF children = <<>> THEN <<>>
    ELSE LET child == fs[Append(dir, children[1])]
         IN  <<[c |-> child.Name], [c |-> ":"]>>
                 \o (IF child.Hash = Nil THEN <<>> ELSE <<child.Hash>>)
                 \o <<[c |-> ":"]>>
                 \o ListedBytes(fs, dir, Tail(children))

\* The characters of the object hash strings, concatenated in order.
RECURSIVE ObjectChars(_)
ObjectChars(objects) ==
    IF objects = <<>> THEN <<>>
    ELSE [i \in 1..Len(objects[1].Hash) |-> [c |-> objects[1].Hash[i]]]
             \o ObjectChars(Tail(objects))

HashCurrent(fs, path) ==
    LET n == fs[path]
    IN  IF n.DirNode # Nil
        THEN /\ \A i \in 1..Len(n.DirNode.Children) :
                    Append(path, n.DirNode.Children[i]) \in DOMAIN fs
             /\ n.Hash = [sha |-> ListedBytes(fs, path, n.DirNode.Children)]
        ELSE /\ n.FileNode # Nil
             /\ n.Hash = [sha |-> ObjectChars(n.FileNode.Objects)]

RECURSIVE SumSizes(_, _)
SumSizes(fs, paths) ==
    IF paths = {} THEN 0
    ELSE LET q == CHOOSE q \in paths : TRUE
         IN  fs[q].SubtreeSize + SumSizes(fs, paths \ {q})

\* The bytes of the header and footer attached to a directory node.
HeaderFooterSize(n) == ObjBytes(n.DirNode.Header) + ObjBytes(n.DirNode.Footer)

SizeOf(fs, path) == IF path \in DOMAIN fs THEN fs[path].SubtreeSize ELSE 0

ObjectsOf(fs, path) == IF IsFile(fs, path) THEN fs[path].FileNode.Objects ELSE <<>>

----------------------------------------------------------------------------
(* Properties *)

\* C1: after calls that all succeeded, the tree Finish() returns has a
\* current hash on every node: a file's hash is the hash of its object hash
\* strings concatenated in order, and a directory's hash is the hash of
\* name ":" hash ":" of each listed child, over the children's stored hashes.
C1_FinishedHashesCurrent ==
    (allOk /\ last.op = "Finish") =>
        /\ fin # Nil
        /\ \A p \in DOMAIN fin.Fs : HashCurrent(fin.Fs, p)

\* A Finish() that had stale hashes to recompute below the root: the tree
\* was mutated after its hashes were last computed.
C1_Witness ==
    /\ allOk /\ last.op = "Finish" /\ nops >= 2
    /\ \E p \in DOMAIN fin.Fs : Len(p) = 2 /\ fin.Fs[p].FileNode # Nil
    /\ \E p \in DOMAIN fin.Fs : Len(p) = 1 /\ fin.Fs[p].FileNode # Nil

\* C2: after calls that all succeeded, every directory's children list is
\* strictly ascending and is exactly the set of basenames of the present
\* paths under it, and every present non-root path has its parent present as
\* a directory.
C2_ChildrenListsExact ==
    allOk =>
        \A p \in DOMAIN h.fs :
            /\ p # <<>> => IsDir(h.fs, Parent(p))
            /\ h.fs[p].DirNode # Nil =>
                   /\ StrictlyAscending(h.fs[p].DirNode.Children)
                   /\ {h.fs[p].DirNode.Children[i] :
                          i \in 1..Len(h.fs[p].DirNode.Children)}
                        = {base(q) : q \in ChildPaths(h.fs, p)}

\* A tree in which a deletion has removed a directory with a child and the
\* root lists two children.
C2_Witness ==
    /\ allOk /\ last.op = "DeleteFile" /\ nops = 2
    /\ Len(h.fs[<<>>].DirNode.Children) = 2
    /\ <<"a", "b">> \notin DOMAIN h.fs

\* C3: after calls that all succeeded, every directory's subtree_size is the
\* sum of its children's subtree_size plus the bytes of the header and footer
\* attached to it.
C3_DirectorySizeIsSum ==
    allOk =>
        \A p \in DOMAIN h.fs :
            h.fs[p].DirNode # Nil =>
                h.fs[p].SubtreeSize
                    = SumSizes(h.fs, ChildPaths(h.fs, p)) + HeaderFooterSize(h.fs[p])

\* The root hash of the tree Finish() returns for an open tree.
RootHash(t) == Finish(t).tree.Fs[<<>>].Hash

Range(seq) == {seq[i] : i \in 1..Len(seq)}

IsPrefix(p, q) == Len(p) <= Len(q) /\ SubSeq(q, 1, Len(p)) = p

\* A log of put_file calls on pairwise disjoint paths: no two calls name the
\* same path or a path and one of its ancestors.
DisjointPuts(log) ==
    /\ \A i \in 1..Len(log) : log[i].op = "PutFile"
    /\ \A i, j \in 1..Len(log) :
           i # j => ~IsPrefix(clean(log[i].path), clean(log[j].path))

\* C4: the same set of put_file calls on disjoint paths, applied to an empty
\* tree in two orders, gives equal root hashes after Finish().
C4_InsertionOrderIndependent ==
    (/\ DisjointPuts(log1)
     /\ Len(log1) = Len(log2)
     /\ Range(log1) = Range(log2))
        => RootHash(h) = RootHash(h2)

\* Three puts applied in two different orders, the second tree's children
\* having arrived out of lexical order.
C4_Witness ==
    /\ DisjointPuts(log1)
    /\ Len(log1) = 3 /\ Len(log2) = 3
    /\ Range(log1) = Range(log2)
    /\ log1 # log2
    /\ log1[1].path = <<"b">>

FinishedFs(t) == Finish(t).tree.Fs

\* Structural identity as the claim lists it.
StructurallyIdentical(f, g) ==
    /\ DOMAIN f = DOMAIN g
    /\ \A p \in DOMAIN f :
           /\ nodetype(f[p]) = nodetype(g[p])
           /\ f[p].SubtreeSize = g[p].SubtreeSize
           /\ f[p].FileNode = g[p].FileNode
           /\ f[p].DirNode = g[p].DirNode

\* What the hashes cover: the paths, the node types, and each file's object
\* hash strings concatenated.
SameHashedContent(f, g) ==
    /\ DOMAIN f = DOMAIN g
    /\ \A p \in DOMAIN f :
           /\ nodetype(f[p]) = nodetype(g[p])
           /\ nodetype(f[p]) = file =>
                  ObjectChars(f[p].FileNode.Objects) = ObjectChars(g[p].FileNode.Objects)

\* C5 as stated: two finished trees are structurally identical (paths, node
\* types, object lists, headers/footers, subtree sizes) iff their root hashes
\* are equal.
C5_MerkleAsStated ==
    StructurallyIdentical(FinishedFs(h), FinishedFs(h2)) <=> RootHash(h) = RootHash(h2)

\* C5 amended: two finished trees have equal root hashes iff they have the
\* same paths, the same node type at each path and, at each file, the same
\* concatenation of object hash strings.
C5_MerkleHashedContent ==
    SameHashedContent(FinishedFs(h), FinishedFs(h2)) <=> RootHash(h) = RootHash(h2)

\* Two trees with equal root hashes whose object lists differ.
C5_Witness ==
    /\ RootHash(h) = RootHash(h2)
    /\ IsFile(h.fs, <<"a">>) /\ IsFile(h2.fs, <<"a">>)
    /\ h.fs[<<"a">>].FileNode.Objects # h2.fs[<<"a">>].FileNode.Objects

\* C6: a put_file, put_file_overwrite, put_file_split or put_dir whose target
\* has a strict ancestor that exists and is not a directory fails with
\* PathConflict and leaves the tree map and the dirty set as they were.
C6_AncestorConflictRejected ==
    [][(last'.op \in PutOps /\ AncestorConflict(h.fs, clean(last'.path)))
          => (last'.err = PathConflict /\ h' = h)]_vars

\* A put below a regular file has been rejected.
C6_Witness ==
    /\ last.op \in PutOps
    /\ last.err = PathConflict
    /\ AncestorConflict(h.fs, clean(last.path))
    /\ IsFile(h.fs, Parent(clean(last.path)))

\* C7: put_file on a path that holds a directory, for every object list, and
\* put_dir on a path that holds a file fail with PathConflict and leave the
\* tree map and the dirty set unchanged.
C7_TypeMismatchRejected ==
    [][(\/ last'.op = "PutFile" /\ IsDir(h.fs, clean(last'.path))
        \/ last'.op = "PutDir" /\ IsFile(h.fs, clean(last'.path)))
          => (last'.err = PathConflict /\ h' = h)]_vars

\* C8: a successful put_file(path, objects, d) on a path without a
\* conflicting node, for every object list, leaves a file at path holding the prior objects followed by objects, with every
\* ancestor present as a directory and every node on the path listed in its
\* parent's children.
C8_PutFileAppends ==
    [][(/\ last'.op = "PutFile" /\ last'.err = OK
        /\ ~AncestorConflict(h.fs, clean(last'.path))
        /\ ~IsDir(h.fs, clean(last'.path))) =>
          LET p == clean(last'.path)
          IN  /\ IsFile(h'.fs, p)
              /\ ObjectsOf(h'.fs, p) = ObjectsOf(h.fs, p) \o last'.objects
              /\ \A q \in Ancestors(p) : IsDir(h'.fs, q)
              /\ \A q \in (Ancestors(p) \cup {p}) \ {<<>>} :
                     /\ IsDir(h'.fs, Parent(q))
                     /\ \E i \in 1..Len(h'.fs[Parent(q)].DirNode.Children) :
                            h'.fs[Parent(q)].DirNode.Children[i] = base(q)]_vars

\* C9: after a successful put_file_split(path, ..., header, footer, hf_size)
\* the directory immediately containing path has the given header and footer,
\* whether this call created it or it already existed.
C9_SplitSetsParentHeader ==
    [][(last'.op = "PutFileSplit" /\ last'.err = OK /\ clean(last'.path) # <<>>) =>
          LET d == Parent(clean(last'.path))
          IN  /\ IsDir(h'.fs, d)
              /\ h'.fs[d].DirNode.Header = last'.header
              /\ h'.fs[d].DirNode.Footer = last'.footer]_vars

\* C10: after a successful put_file_split with non-empty objects the file's
\* subtree_size has grown by size, the immediate parent's by size + hf_size,
\* and every higher ancestor's by size.
C10_SplitSizes ==
    [][(last'.op = "PutFileSplit" /\ last'.err = OK /\ Len(last'.objects) > 0) =>
          LET p == clean(last'.path)
          IN  /\ SizeOf(h'.fs, p) = SizeOf(h.fs, p) + last'.size
              /\ SizeOf(h'.fs, Parent(p))
                     = SizeOf(h.fs, Parent(p)) + last'.size + last'.hfSize
              /\ \A q \in Ancestors(Parent(p)) :
                     SizeOf(h'.fs, q) = SizeOf(h.fs, q) + last'.size]_vars

Min(a, b) == IF a <= b THEN a ELSE b

\* C11: put_file_overwrite(path, objects, overwrite_index, d) on an existing
\* file with object list L, for every object list objects, leaves at path the
\* first min(overwrite_index, Len(L)) elements of L followed by objects.
C11_OverwriteTruncatesThenAppends ==
    [][(last'.op = "PutFileOverwrite" /\ IsFile(h.fs, clean(last'.path))) =>
          LET p == clean(last'.path)
              L == ObjectsOf(h.fs, p)
          IN  ObjectsOf(h'.fs, p)
                  = SubSeq(L, 1, Min(last'.index.Index, Len(L))) \o last'.objects]_vars

\* C12: put_dir(path) on a path that holds a directory returns success and
\* leaves the tree map and the dirty set unchanged; on an absent path (with no
\* conflicting ancestor) it succeeds, leaves an empty directory at path and a
\* directory at every ancestor, and changes no subtree_size: every node that
\* was present keeps its size and every node created has size 0.
C12_PutDirIdempotent ==
    [][(last'.op = "PutDir") =>
          LET p == clean(last'.path)
          IN  /\ IsDir(h.fs, p) => (last'.err = OK /\ h' = h)
              /\ (p \notin DOMAIN h.fs /\ ~AncestorConflict(h.fs, p)) =>
                     /\ last'.err = OK
                     /\ IsDir(h'.fs, p)
                     /\ h'.fs[p].DirNode.Children = <<>>
                     /\ \A q \in Ancestors(p) : IsDir(h'.fs, q)
                     /\ DOMAIN h'.fs = DOMAIN h.fs \cup Ancestors(p) \cup {p}
                     /\ \A q \in DOMAIN h.fs :
                            h'.fs[q].SubtreeSize = h.fs[q].SubtreeSize
                     /\ \A q \in DOMAIN h'.fs \ DOMAIN h.fs :
                            h'.fs[q].SubtreeSize = 0]_vars

\* put_dir("/a/./b") has created the empty directory /a/b and its missing
\* parent /a in a tree that held the root only.
C12_Witness ==
    /\ last.op = "PutDir" /\ last.err = OK /\ allOk
    /\ DOMAIN h.fs = {<<>>, <<"a">>, <<"a", "b">>}
    /\ clean(last.path) = <<"a", "b">>
    /\ IsDir(h.fs, <<"a", "b">>)
    /\ h.fs[<<"a">>].DirNode.Children = <<"b">>
    /\ h.fs[<<>>].SubtreeSize = 0
    /\ {<<"a">>, <<"a", "b">>} \subseteq h.changed

\* What delete_file(p) is said to leave behind: p and its descendants are
\* gone, every other node is still there, p's basename is out of its parent's
\* children list, and every ancestor has lost exactly p's former size and is
\* marked dirty.
DeletedExactly(t, t2, p) ==
    /\ DOMAIN t2.fs = {q \in DOMAIN t.fs : ~IsPrefix(p, q)}
    /\ IsDir(t2.fs, Parent(p))
    /\ \A i \in 1..Len(t2.fs[Parent(p)].DirNode.Children) :
           t2.fs[Parent(p)].DirNode.Children[i] # base(p)
    /\ \A q \in Ancestors(p) :
           /\ q \in DOMAIN t2.fs
           /\ t2.fs[q].SubtreeSize = t.fs[q].SubtreeSize - t.fs[p].SubtreeSize
           /\ q \in t2.changed

FinishedRootHash(t) ==
    IF Finish(t).err = OK THEN Finish(t).tree.Fs[<<>>].Hash
    ELSE [failed |-> Finish(t).err]

\* The last two calls were a successful put_file(p, objs, sz) and then
\* delete_file(p).
PutThenDelete ==
    /\ last.op = "DeleteFile"
    /\ prev.call.op = "PutFile" /\ prev.call.err = OK
    /\ last.path = prev.call.path

C15_DeleteRootEmptiesTree ==
    [][(allOk /\ last'.op = "DeleteFile" /\ clean(last'.path) = <<>>) =>
          /\ last'.err = OK
          /\ DOMAIN h'.fs = {<<>>}
          /\ IsDir(h'.fs, <<>>)
          /\ h'.fs[<<>>].DirNode.Children = <<>>
          /\ size(h'.fs) = 0]_vars

\* No node of fs is matched by delete_file's argument: the root stands for
\* the pattern "*", and a "*" component matches any one name.
MatchesNothing(fs, rawPath) ==
    LET pattern == IF clean(rawPath) = <<>> THEN <<"*">> ELSE clean(rawPath)
    IN  \A q \in DOMAIN fs :
            ~(/\ Len(q) = Len(pattern)
              /\ \A i \in 1..Len(q) : pattern[i] = "*" \/ pattern[i] = q[i])

C17_RootAlwaysDirectory ==
    /\ IsDir(h.fs, <<>>)
    /\ get(h.fs, <<>>) = [node |-> h.fs[<<>>], err |-> OK]
    /\ h2 # EmptyTree => IsDir(h2.fs, <<>>)
    /\ fin # Nil => IsDir(fin.Fs, <<>>)

\* delete_file("/") has emptied a tree that had been finished with nodes in
\* it, after a call that failed.
C17_Witness ==
    /\ ~allOk
    /\ last.op = "DeleteFile" /\ last.err = OK /\ clean(last.path) = <<>>
    /\ DOMAIN h.fs = {<<>>}
    /\ h.fs[<<>>].Hash # Nil

\* C18: finish() right after T.open(), with no mutation in between, succeeds
\* and returns a tree with the paths of T and, at every path, the hash T has
\* there; so the root hashes are equal.
C18_OpenFinishRoundTrip ==
    [][(last.op = "Open" /\ last'.op = "Finish") =>
          /\ last'.err = OK
          /\ fin' # Nil
          /\ DOMAIN fin'.Fs = DOMAIN fin.Fs
          /\ \A p \in DOMAIN fin.Fs : fin'.Fs[p].Hash = fin.Fs[p].Hash]_vars

\* A tree holding /a/b has been finished, reopened and finished again.
C18_Witness ==
    /\ last.op = "Finish" /\ last.err = OK
    /\ prev.call.op = "Open" /\ prev.at = nops - 1
    /\ nops = 2
    /\ <<"a", "b">> \in DOMAIN fin.Fs
    /\ fin.Fs[<<>>].Hash # Nil

\* The calls that write to the open tree while the caller keeps its finished
\* tree.
WritingOps ==
    {"PutFile", "PutFileOverwrite", "PutFileSplit", "PutDir", "DeleteFile",
     "Merge", "FinishAgain"}

\* C19: after finish() has returned a finished tree, every later put, delete,
\* merge and finish() on the open tree it came from leaves that finished tree,
\* with every node, children list, object list, size and hash, as it was.
C19_FinishedTreeNotShared ==
    [][(fin # Nil /\ ~opened /\ last'.op \in WritingOps) => fin' = fin]_vars

\* The open tree has been emptied after finish() returned a tree holding
\* /a/b, and the finished tree still holds it.
C19_Witness ==
    /\ fin # Nil /\ ~opened
    /\ last.op = "DeleteFile" /\ last.err = OK /\ clean(last.path) = <<>>
    /\ DOMAIN h.fs = {<<>>}
    /\ <<"a", "b">> \in DOMAIN fin.Fs

\* C20: mutations of the open tree T.open() returned leave the finished tree
\* T as it was, and leave a second tree returned by T.open() as it was.
C20_ReopenedTreeNotShared ==
    [][(opened /\ last'.op \in WritingOps) => (fin' = fin /\ h2' = h2)]_vars

\* Two trees were opened from a finished tree holding /a and /b; the first
\* has been emptied, the second and the finished tree still hold both.
C20_Witness ==
    /\ opened /\ nops = 2
    /\ last.op = "DeleteFile" /\ last.err = OK /\ clean(last.path) = <<>>
    /\ DOMAIN h.fs = {<<>>}
    /\ h2.fs = fin.Fs
    /\ {<<"a">>, <<"b">>} \subseteq DOMAIN h2.fs

\* A source tree that merge does not skip: it has a root entry.
NonEmpty(tree) == <<>> \in DOMAIN tree.Fs

\* The paths present in at least one non-empty source.
SourcePaths(trees) ==
    UNION {DOMAIN trees[i].Fs : i \in {j \in 1..Len(trees) : NonEmpty(trees[j])}}

\* The objects the sources hold at path p, source after source in the order
\* the sources were passed.
RECURSIVE SourceObjects(_, _)
SourceObjects(trees, p) ==
    IF trees = <<>> THEN <<>>
    ELSE (IF NonEmpty(trees[1]) /\ IsFile(trees[1].Fs, p)
          THEN trees[1].Fs[p].FileNode.Objects ELSE <<>>)
             \o SourceObjects(Tail(trees), p)

\* C21: after a successful merge, every path that is a file in at least one
\* non-empty source is a file in the receiver and holds the receiver's prior
\* objects at that path followed by the objects of the sources that contain
\* it, in the order the sources were passed, each source once.
C21_MergeConcatenatesObjects ==
    [][(last'.op = "Merge" /\ last'.err = OK) =>
          \A p \in SourcePaths(last'.trees) :
              (\E i \in 1..Len(last'.trees) :
                   NonEmpty(last'.trees[i]) /\ IsFile(last'.trees[i].Fs, p))
                => /\ IsFile(h'.fs, p)
                   /\ h'.fs[p].FileNode.Objects
                          = ObjectsOf(h.fs, p) \o SourceObjects(last'.trees, p)]_vars

\* Two sources that both hold the file /a have been merged into a receiver
\* that held /a already: /a holds the receiver's x, then x and y.
C21_Witness ==
    /\ last.op = "Merge" /\ last.err = OK /\ Len(last.trees) = 2
    /\ IsFile(h.fs, <<"a">>)
    /\ h.fs[<<"a">>].FileNode.Objects = <<X, X, Y>>
    /\ IsFile(h.fs, <<"b">>)

\* Some path present in a non-empty source is a file in one of the
\* participating trees (the non-empty sources and the receiver) and a
\* directory in another.
MergeTypeConflict(fs, trees) ==
    LET maps == {fs} \cup {trees[i].Fs : i \in {j \in 1..Len(trees) : NonEmpty(trees[j])}}
    IN  \E p \in SourcePaths(trees) :
            \E f \in maps, g \in maps : IsFile(f, p) /\ IsDir(g, p)

\* C22: merge fails with PathConflict exactly when some path present in a
\* non-empty source is a file in one participating tree and a directory in
\* another, and succeeds when there is no such path.
C22_MergeConflictIff ==
    [][(last'.op = "Merge") =>
          /\ (last'.err = PathConflict) <=> MergeTypeConflict(h.fs, last'.trees)
          /\ ~MergeTypeConflict(h.fs, last'.trees) => last'.err = OK]_vars

\* A merge of one source in which /a is a file, into a receiver in which /a
\* is a directory, has failed with PathConflict.
C22_Witness ==
    /\ last.op = "Merge" /\ last.err = PathConflict
    /\ Len(last.trees) = 1
    /\ IsFile(last.trees[1].Fs, <<"a">>)
    /\ IsDir(h.fs, <<"a">>)

\* C23: a successful merge leaves the hash field of every node that existed
\* as it was and gives no hash to a node it creates, and afterwards every
\* path present in a non-empty source, the root included, is in the
\* receiver's dirty set.
C23_MergeMarksDirty ==
    [][(last'.op = "Merge" /\ last'.err = OK) =>
          /\ \A p \in DOMAIN h.fs :
                 p \in DOMAIN h'.fs /\ h'.fs[p].Hash = h.fs[p].Hash
          /\ \A p \in DOMAIN h'.fs \ DOMAIN h.fs : h'.fs[p].Hash = Nil
          /\ SourcePaths(last'.trees) \subseteq h'.changed]_vars

\* A source holding /a/b has been merged into a finished receiver: the root
\* keeps its hash and is dirty, and /a/b is dirty.
C23_Witness ==
    /\ last.op = "Merge" /\ last.err = OK /\ nops = 1
    /\ h.fs[<<>>].Hash # Nil
    /\ {<<>>, <<"a">>, <<"a", "b">>} \subseteq h.changed
    /\ <<"a", "b">> \in SourcePaths(last.trees)

\* C24: merge skips the sources that have no root entry: it leaves the
\* receiver as merging the list without them does (for some order in which
\* the children are visited) and returns the same error, and when no source
\* is left it returns success and leaves the map and the dirty set unchanged.
C24_MergeSkipsEmptyTrees ==
    [][(last'.op = "Merge") =>
          LET kept == SelectSeq(last'.trees, NonEmpty)
          IN  /\ kept = <<>> => (last'.err = OK /\ h' = h)
              /\ \E ord \in ChildOrders :
                     Merge(h, kept, ord) = Res(h', last'.err)]_vars

\* An empty source and a source holding /a/b passed twice have been merged
\* into a tree without /a/b: the file holds the source's object twice.
C24_Witness ==
    /\ last.op = "Merge" /\ last.err = OK
    /\ Len(last.trees) = 3 /\ ~NonEmpty(last.trees[1])
    /\ IsFile(h.fs, <<"a", "b">>)
    /\ h.fs[<<"a", "b">>].FileNode.Objects = <<Y, Y>>

----------------------------------------------------------------------------
(* Diff *)

\* The levels between a path the visitor was called on and the path the
\* comparison started from.
Level(path, start) == Len(clean(path)) - Len(clean(start))

\* The nodes at the two paths are both absent, or both present with equal
\* hashes.
Pruned(new, old, newPath, oldPath) ==
    LET newNode == get(new, newPath).node
        oldNode == get(old, oldPath).node
    IN  \/ newNode = Nil /\ oldNode = Nil
        \/ newNode # Nil /\ oldNode # Nil /\ newNode.Hash = oldNode.Hash

\* The path the comparison started from on the side of a call of the visitor.
StartOf(o, c) == IF c.added THEN o.newPath ELSE o.oldPath

\* C25: a Diff with depth d >= 0 calls the visitor on no node more than d
\* levels below the paths it started from; with d = 0 and two nodes with
\* different hashes it calls the visitor once on the new node (added) and once
\* on the old node (not added) and nothing else; a directory is reported only
\* where the depth left is 0, and with d = 1 every directory child of the new
\* directory that differs from its counterpart is reported itself.
C25_DiffBoundedDepth ==
    (out.op = "Diff" /\ out.depth >= 0) =>
        LET newNode == get(fin.Fs, out.newPath).node
            oldNode == get(out.old.Fs, out.oldPath).node
            calls == out.calls
        IN  /\ \A i \in DOMAIN calls :
                   /\ Level(calls[i].path, StartOf(out, calls[i])) <= out.depth
                   /\ calls[i].node.DirNode # Nil =>
                          Level(calls[i].path, StartOf(out, calls[i])) = out.depth
            /\ (/\ out.depth = 0
                /\ newNode # Nil /\ oldNode # Nil
                /\ newNode.Hash # oldNode.Hash)
               => calls = <<Visit(out.newPath, newNode, TRUE),
                            Visit(out.oldPath, oldNode, FALSE)>>
            /\ (/\ out.depth = 1
                /\ newNode # Nil /\ newNode.DirNode # Nil
                /\ ~Pruned(fin.Fs, out.old.Fs, out.newPath, out.oldPath))
               => \A k \in 1..Len(newNode.DirNode.Children) :
                      LET q == join(out.newPath, newNode.DirNode.Children[k])
                          qo == join(out.oldPath, newNode.DirNode.Children[k])
                      IN  (/\ IsDir(fin.Fs, q)
                           /\ ~Pruned(fin.Fs, out.old.Fs, q, qo))
                          => \E i \in DOMAIN calls :
                                 calls[i] = Visit(q, fin.Fs[q], TRUE)

\* Diff from "/a" with depth 1 between two trees that differ below "/a/b":
\* the visitor was called on "/a/b" on both sides, and "/a/b/a" exists.
C25_Witness ==
    /\ out.op = "Diff"
    /\ out.depth = 1
    /\ out.newPath = <<"a">> /\ out.oldPath = <<"a">>
    /\ <<"a", "b", "a">> \in DOMAIN fin.Fs
    /\ IsDir(out.old.Fs, <<"a", "b">>)
    /\ out.calls = <<Visit(<<"a", "b">>, fin.Fs[<<"a", "b">>], TRUE),
                     Visit(<<"a", "b">>, out.old.Fs[<<"a", "b">>], FALSE)>>

\* C26: when the nodes Diff starts from are both absent, or both present
\* with equal hashes, the visitor is not called; the visitor is called on no
\* node at or below such a pair; a finished tree compared with itself at one
\* path gives no call, whatever the depth.
C26_DiffPrunesEqual ==
    (out.op = "Diff") =>
        /\ Pruned(fin.Fs, out.old.Fs, out.newPath, out.oldPath) => out.calls = <<>>
        /\ (out.old = fin /\ clean(out.newPath) = clean(out.oldPath))
           => out.calls = <<>>
        /\ \A i \in DOMAIN out.calls :
               LET on == clean(StartOf(out, out.calls[i]))
                   below == SubSeq(clean(out.calls[i].path), Len(on) + 1,
                                   Len(clean(out.calls[i].path)))
               IN  /\ clean(out.calls[i].path) = on \o below
                   /\ \A k \in 0..Len(below) :
                          ~Pruned(fin.Fs, out.old.Fs,
                                  clean(out.newPath) \o SubSeq(below, 1, k),
                                  clean(out.oldPath) \o SubSeq(below, 1, k))

\* Diff from "/" without a bound between two trees that have the same "/a"
\* and differ in "/b": the visitor was called on "/b" only.
C26_Witness ==
    /\ out.op = "Diff"
    /\ out.depth = 0 - 1
    /\ out.newPath = <<>> /\ out.oldPath = <<>>
    /\ IsFile(fin.Fs, <<"a">>) /\ IsFile(out.old.Fs, <<"a">>)
    /\ fin.Fs[<<"a">>].Hash = out.old.Fs[<<"a">>].Hash
    /\ <<"b">> \in DOMAIN fin.Fs
    /\ out.calls = <<Visit(<<"b">>, fin.Fs[<<"b">>], TRUE)>>

----------------------------------------------------------------------------
(* List and Glob *)

\* What List has to return for the tree and the path of the call o.
ListResult(o) ==
    LET path == clean(o.path)
    IN  IF path \notin DOMAIN o.fs THEN o.err = PathNotFound /\ o.nodes = <<>>
        ELSE IF ~IsDir(o.fs, path) THEN o.err = PathConflict /\ o.nodes = <<>>
        ELSE LET children == o.fs[path].DirNode.Children
             IN  /\ o.err = OK
                 /\ StrictlyAscending(children)
                 /\ Len(o.nodes) = Len(children)
                 /\ \A i \in 1..Len(children) :
                        o.nodes[i] = o.fs[Append(path, children[i])]

\* C27: List on a directory returns the nodes of its children, one for each
\* entry of the list of children and in the ascending order of that list; it
\* returns PathNotFound for an absent path and PathConflict for a file; the
\* open tree and the finished tree are the same after the call.
C27_ListReturnsChildren ==
    [][(out'.op = "List") => (ListResult(out') /\ h' = h /\ fin' = fin)]_vars

\* List on "/" of a tree with the files "/a" and "/b" returned both nodes.
C27_Witness ==
    /\ out.op = "List"
    /\ out.path = <<>>
    /\ out.err = OK
    /\ Len(out.nodes) = 2
    /\ out.nodes[1].Name = "a" /\ out.nodes[2].Name = "b"

\* The pattern holds one of the metacharacters * ? [ ] { } ! (the names of the
\* model hold "*" only).
HasMeta(pattern) == \E i \in 1..Len(pattern) : pattern[i] = "*"

\* C28: for a pattern without a metacharacter Glob returns what Get returns:
\* the map with the one entry of the cleaned pattern when that path is
\* present, and PathNotFound when it is absent.
C28_GlobLiteralIsGet ==
    (out.op = "Glob" /\ ~HasMeta(out.path)) =>
        IF get(out.fs, out.path).err = OK
        THEN /\ out.err = OK
             /\ out.paths = {clean(out.path)}
             /\ clean(out.path) \in DOMAIN out.fs
        ELSE out.err = PathNotFound /\ out.paths = {}

\* Glob("/a/.") on a tree that holds "/a" returned the entry of "/a".
C28_Witness ==
    /\ out.op = "Glob"
    /\ out.path = <<"a", ".">>
    /\ out.err = OK
    /\ out.paths = {<<"a">>}

----------------------------------------------------------------------------
(* Serialize and Deserialize *)

\* The input does not end within a field.
WellFormed(bytes) == \A i \in 1..Len(bytes) : bytes[i].tag # "eof"

\* The version field of an envelope; a field that is not written holds 0.
EnvelopeVersion(bytes) ==
    IF \E i \in 1..Len(bytes) : bytes[i].tag = "version"
    THEN bytes[CHOOSE i \in 1..Len(bytes) :
                   /\ bytes[i].tag = "version"
                   /\ \A j \in (i + 1)..Len(bytes) : bytes[j].tag # "version"].val
    ELSE 0

\* Deserialize has been called on what Serialize returned for the finished
\* tree.
RoundTrip(o) ==
    /\ o.op = "Deserialize"
    /\ o.from.arg = fin
    /\ o.from.err = OK
    /\ o.bytes = o.from.bytes

\* C29: Deserialize returns a tree for an envelope with version 1 only, and
\* Unsupported for an envelope with any other version; the tree Finish
\* returned has version 1, and Deserialize on its serialized form does not
\* return Unsupported.
C29_DeserializeVersion ==
    /\ fin.Version = 1
    /\ (out.op = "Deserialize" /\ WellFormed(out.bytes)) =>
           /\ (out.err = OK) <=> (EnvelopeVersion(out.bytes) = 1)
           /\ (out.err = Unsupported) <=> (EnvelopeVersion(out.bytes) # 1)
           /\ out.err = OK => out.tree.Version = 1
    /\ RoundTrip(out) => out.err # Unsupported

\* Deserialize on an envelope with version 2 returned Unsupported.
C29_Witness ==
    /\ out.op = "Deserialize"
    /\ WellFormed(out.bytes)
    /\ EnvelopeVersion(out.bytes) = 2
    /\ FieldsOf(out.bytes, "fs") # <<>>
    /\ out.err = Unsupported

\* C30: Deserialize on what Serialize returned for a finished tree returns no
\* error and a tree with the same map: the same paths, and for each path the
\* same name, hash, size, objects, children, header and footer.
C30_SerializeRoundTrip ==
    RoundTrip(out) =>
        /\ out.err = OK
        /\ DOMAIN out.tree.Fs = DOMAIN fin.Fs
        /\ \A p \in DOMAIN fin.Fs : out.tree.Fs[p] = fin.Fs[p]
        /\ out.tree = fin

\* The round trip of a tree with a file of two objects next to a directory
\* with a header and a footer.
C30_Witness ==
    /\ RoundTrip(out)
    /\ out.err = OK
    /\ \E p \in DOMAIN fin.Fs : IsDir(fin.Fs, p) /\ fin.Fs[p].DirNode.Header # Nil
    /\ \E p \in DOMAIN fin.Fs : IsFile(fin.Fs, p) /\ fin.Fs[p].SubtreeSize > 0

----------------------------------------------------------------------------
(* Merge and the calls that build a tree *)

\* C31: a Merge that returns PathConflict leaves the map of the open tree
\* (the nodes, their types, objects, children and sizes) and the changed set
\* as they were before the call.
C31_MergeAtomicOnConflict ==
    [][(last'.op = "Merge" /\ last'.err = PathConflict) => h' = h]_vars

\* C32: when Merge of finished trees, each built by PutFile calls with objects
\* and PutDir calls, into a new tree returns nil, the calls of the trees made
\* one after the other on one new tree all return nil, and after Finish the
\* two trees have the same paths, node types, objects, sizes and root hash.
C32_MergeIsSequentialPuts ==
    (last.op = "Finish" /\ allOk /\ nops = 2) =>
        /\ BuildOk(NewHashTree, log2)
        /\ Finish(h2).err = OK
        /\ LET seq == Finish(h2).tree.Fs
           IN  /\ DOMAIN fin.Fs = DOMAIN seq
               /\ \A p \in DOMAIN fin.Fs :
                      /\ nodetype(fin.Fs[p]) = nodetype(seq[p])
                      /\ ObjectsOf(fin.Fs, p) = ObjectsOf(seq, p)
                      /\ fin.Fs[p].SubtreeSize = seq[p].SubtreeSize
               /\ fin.Fs[<<>>].Hash = seq[<<>>].Hash

\* Three trees were merged: two hold the file "/a/b", one the file "/b".
C32_Witness ==
    /\ last.op = "Finish" /\ allOk /\ nops = 2
    /\ Len(log2) = 4
    /\ ObjectsOf(fin.Fs, <<"a", "b">>) = <<X, Y, X>>
    /\ IsFile(fin.Fs, <<"b">>)
    /\ fin.Fs[<<>>].SubtreeSize = 4

----------------------------------------------------------------------------
(* The frame of PutFile, and the changed set *)

\* The size, objects, children, header and footer of a node.
Content(n) == [size |-> n.SubtreeSize, file |-> n.FileNode, dir |-> n.DirNode]

\* C33: a PutFile(path, objects, d) with objects that returns nil adds exactly
\* d to the size of the file at path and of each strict ancestor of path up to
\* the root (a node the call creates counts from 0); a node that is neither
\* path nor an ancestor of it is present after the call exactly when it was
\* before, with the same size, objects, children, header and footer.
C33_PutFileSizeFrame ==
    [][(last'.op = "PutFile" /\ last'.err = OK /\ Len(last'.objects) > 0) =>
          LET path == clean(last'.path)
              onPath == Ancestors(path) \cup {path}
          IN  /\ IsFile(h'.fs, path)
              /\ \A q \in onPath :
                     /\ q \in DOMAIN h'.fs
                     /\ h'.fs[q].SubtreeSize = SizeOf(h.fs, q) + last'.size
              /\ \A q \in (DOMAIN h.fs \cup DOMAIN h'.fs) \ onPath :
                     /\ q \in DOMAIN h.fs /\ q \in DOMAIN h'.fs
                     /\ Content(h'.fs[q]) = Content(h.fs[q])]_vars

\* PutFile("/a/./b", ...) has created "/a" and "/a/b" next to the file "/b"
\* that was there.
C33_Witness ==
    /\ last.op = "PutFile" /\ last.err = OK /\ Len(last.objects) > 0
    /\ clean(last.path) = <<"a", "b">>
    /\ IsFile(h.fs, <<"b">>)
    /\ h.fs[<<"a">>].SubtreeSize = last.size
    /\ h.fs[<<>>].SubtreeSize = h.fs[<<"b">>].SubtreeSize + last.size

\* C34: after calls that all returned nil, every node of the open tree whose
\* stored hash is not the hash of its present content is in the changed set,
\* and so is every ancestor of a node that is present and in the changed set.
C34_ChangedSetSound ==
    allOk =>
        /\ \A p \in DOMAIN h.fs : ~HashCurrent(h.fs, p) => p \in h.changed
        /\ \A p \in DOMAIN h.fs \cap h.changed : Ancestors(p) \subseteq h.changed

\* Two calls after the start, a node with a stale hash is in the changed set
\* next to a node with a current hash that is not.
C34_Witness ==
    /\ allOk /\ nops = 2
    /\ \E p \in DOMAIN h.fs : ~HashCurrent(h.fs, p) /\ p # <<>> /\ p \in h.changed
    /\ \E p \in DOMAIN h.fs : HashCurrent(h.fs, p) /\ p \notin h.changed

----------------------------------------------------------------------------
(* Diff without a bound, and Walk *)

\* The files of the map mine that the map theirs does not hold with the same
\* hash and type.
FilesNotIn(mine, theirs) ==
    {p \in DOMAIN mine :
        /\ IsFile(mine, p)
        /\ \/ p \notin DOMAIN theirs
           \/ theirs[p].Hash # mine[p].Hash
           \/ nodetype(theirs[p]) # nodetype(mine[p])}

\* The calls of the visitor with the given value of added.
CallsOf(calls, added) == SelectSeq(calls, LAMBDA c : c.added = added)

\* The calls are one call for each path of the set, with the node of the map.
OncePerPath(calls, paths, fs) ==
    /\ Len(calls) = Cardinality(paths)
    /\ {calls[i].path : i \in DOMAIN calls} = paths
    /\ \A i \in DOMAIN calls : calls[i].node = fs[calls[i].path]

\* Diff has been called from "/" to "/" without a bound.
UnboundedRootDiff ==
    /\ out.op = "Diff"
    /\ out.depth = 0 - 1
    /\ clean(out.newPath) = <<>> /\ clean(out.oldPath) = <<>>

\* What C35 says of the calls of the visitor.
ExactOnFiles ==
        /\ \A i \in DOMAIN out.calls :
               /\ out.calls[i].node.FileNode # Nil
               /\ out.calls[i].node.DirNode = Nil
        /\ OncePerPath(CallsOf(out.calls, TRUE),
                       FilesNotIn(fin.Fs, out.old.Fs), fin.Fs)
        /\ OncePerPath(CallsOf(out.calls, FALSE),
                       FilesNotIn(out.old.Fs, fin.Fs), out.old.Fs)

\* Every object of every file has a hash string that is not empty.
HashStringsNonEmpty(fs) ==
    \A p \in DOMAIN fs :
        \A i \in 1..Len(ObjectsOf(fs, p)) : ObjectsOf(fs, p)[i].Hash # <<>>

\* C35 as stated: Diff from "/" to "/" without a bound between two finished
\* trees calls the visitor on files only: once with added for each file of
\* the new tree that the old tree does not hold as a file with the same hash,
\* once with not added for each such file of the old tree; no directory is
\* reported.
C35_DiffExactAsStated == UnboundedRootDiff => ExactOnFiles

\* C35 amended: the same, for trees all of whose objects have a hash string
\* that is not empty.
C35_UnboundedDiffExact ==
    (/\ UnboundedRootDiff
     /\ HashStringsNonEmpty(fin.Fs)
     /\ HashStringsNonEmpty(out.old.Fs)) => ExactOnFiles

\* Such a Diff has reported a file added and a file removed, between trees
\* of which the old one has a directory that the new one lacks.
C35_Witness ==
    /\ UnboundedRootDiff
    /\ HashStringsNonEmpty(fin.Fs)
    /\ HashStringsNonEmpty(out.old.Fs)
    /\ CallsOf(out.calls, TRUE) # <<>>
    /\ CallsOf(out.calls, FALSE) # <<>>
    /\ \E p \in DOMAIN out.old.Fs : IsDir(out.old.Fs, p) /\ p \notin DOMAIN fin.Fs

\* The paths of the map at or below path.
Subtree(fs, path) == {q \in DOMAIN fs : IsPrefix(path, q)}

\* The calls are on pairwise different paths, each with the node of the map.
DistinctCalls(calls, fs) ==
    /\ \A i, j \in DOMAIN calls : i # j => calls[i].path # calls[j].path
    /\ \A i \in DOMAIN calls : calls[i].node = fs[calls[i].path]

\* C36: Walk on a directory calls the visitor once on the directory and on
\* each node below it and on no other node; Walk on a file calls it once on
\* the file; the first error of the visitor ends the walk and is returned.
C36_WalkVisitsSubtree ==
    (out.op = "Walk" /\ clean(out.path) \in DOMAIN out.fs) =>
        LET path == clean(out.path)
            called == {out.calls[i].path : i \in DOMAIN out.calls}
        IN  /\ DistinctCalls(out.calls, out.fs)
            /\ called \subseteq Subtree(out.fs, path)
            /\ IsFile(out.fs, path) => out.calls = <<WalkCall(path, out.fs[path])>>
            /\ IF called \cap out.fails = {}
               THEN out.err = OK /\ called = Subtree(out.fs, path)
               ELSE /\ out.err = VisitorError
                    /\ called \cap out.fails = {out.calls[Len(out.calls)].path}

\* C37: right after a successful Finish on an open tree reached by successful
\* calls only, the changed set of the open tree is empty.
C37_FinishEmptiesChanged ==
    [][(last'.op = "Finish" /\ last'.err = OK /\ allOk') => h'.changed = {}]_vars

\* DeleteFile was just called on a path below a file of the tree it was
\* called on.
DeletedBelowFile ==
    /\ last'.op = "DeleteFile"
    /\ \E q \in Ancestors(clean(last'.path)) : IsFile(h.fs, q)

----------------------------------------------------------------------------
(* The auth config cache *)

\* The cached config holds a SAML ID provider.
HasSAML(cfg) == IF cfg = Nil THEN FALSE ELSE \E i \in DOMAIN cfg.IDPs : cfg.IDPs[i].SAML

\* The step is a call of setCacheConfig.
SetsCache == DoWatchEvent \/ DoGetConfigurationSet

\* What every step does to the cache: the version of the cached config does
\* not decrease unless the cache is or was nil, and a call of setCacheConfig
\* that returns an error leaves configCache and samlSP as they were.
CacheStep ==
    /\ (configCache # Nil /\ configCache' # Nil) =>
           configCache'.Version >= configCache.Version
    /\ (SetsCache /\ lastSet'.err # OK) => UNCHANGED <<configCache, samlSP>>

\* C39: whatever the interleaving of the events watchConfig handles and the
\* GetConfiguration calls, the version of the cached config never decreases
\* while the cache is not reset to nil, a call of setCacheConfig that returns
\* an error leaves configCache and samlSP as they were, and samlSP is set
\* exactly when the cached config holds a SAML ID provider.
C39_ConfigCacheMonotonic ==
    /\ [](samlSP # Nil <=> HasSAML(configCache))
    /\ [][CacheStep]_vars

\* GetConfiguration lost the race with watchConfig: the config it read is older
\* than the cached one, which holds a SAML ID provider, and was rejected.
C39_Witness ==
    /\ lastSet # Nil
    /\ lastSet.by = "GetConfiguration"
    /\ lastSet.err # OK
    /\ configCache # Nil
    /\ lastSet.config.LiveConfigVersion < configCache.Version
    /\ samlSP # Nil

====
